---- MODULE Spec2Model ----
(***************************************************************************)
(* Request orchestration, cancellation and keyed stores of the map app:    *)
(* the Timeline store (Timeline.tsx), the timeline effect of ClickableMap  *)
(* (Map.tsx), the description slot (Desc.tsx), the Wordcloud fetch and     *)
(* retry, and the abort-ref slots of PersonPath and DataVizMap.            *)
(*                                                                         *)
(* Every component is modelled by its own group of variables and has its   *)
(* own specification (SpecTimeline, SpecMap, ...); a specification leaves  *)
(* the variables of the other components at their initial values.          *)
(***************************************************************************)
EXTENDS Integers, Sequences, FiniteSets, TLC

VARIABLES
    events,        \* Timeline: useState<TimelineEvent[]>, the rendered list
    lastCall,      \* Timeline: history of the last call made on the store
    clicked,       \* Map: useState clicked is not null
    city,          \* Map: useState city
    cityEnglish,   \* Map: useState cityEnglish
    activeView,    \* TimelinePanel: useState activeView ("timeline" while not rendered)
    showTimeline,  \* Map: useState showTimeline
    ppxLoading,    \* Map: useState ppxLoading
    ppxError,      \* Map: useState ppxError
    abortRef,      \* Map: abortRef.current, an index of geoReqs (0: null)
    geoReqs,       \* Map: the reverse geocoding requests, each with its controller
    trRuns,        \* Map: the runs of the translation effect, each with its cancelled flag
    trCurrent,     \* Map: the translation run the next cleanup cancels (0: none)
    tlRuns,        \* Map: the async runs started by the timeline effect
    tlCurrent,     \* Map: the run started by the last timeline effect (0: it started none)
    wcCity,        \* Wordcloud: the city prop
    wcMaxWords,    \* Wordcloud: the maxWords prop
    keywords,      \* Wordcloud: useState keywords
    wcLoading,     \* Wordcloud: useState loading
    wcError,       \* Wordcloud: useState error
    wcRuns,        \* Wordcloud: the async runs started by the effect and by onRetry
    wcCurrent,     \* Wordcloud: the effect run the next cleanup cancels (0: none)
    wcMounted,     \* Wordcloud: the component is mounted
    wcWrite,       \* Wordcloud: history of the last setter call of a run (run 0: none)
    person,        \* PersonPath: useState person, the text of the search field
    busy,          \* PersonPath: useState busy
    showPanel,     \* PersonPath: useState showPanel
    personIntroHtml,    \* PersonPath: useState personIntroHtml
    personIntroLoading, \* PersonPath: useState personIntroLoading
    personIntroError,   \* PersonPath: useState personIntroError
    introAbortRef, \* PersonPath: introAbortRef.current, an index of introReqs (0: null)
    introReqs,     \* PersonPath: the intro requests, each with its controller
    hops,          \* PersonPath: useState hops
    ppError,       \* PersonPath: useState error
    pathRun,       \* PersonPath: where the life path part of runSearch stands
    geocodeCache,  \* PersonPath: the keys of geocodeCache.current
    activePerson,  \* PersonPath: useState activePerson
    mediaItem,     \* PersonPath: useState mediaItem
    mediaLoading,  \* PersonPath: useState mediaLoading
    mediaError,    \* PersonPath: useState mediaError
    mediaAbortRef, \* PersonPath: mediaAbortRef.current, an index of mediaReqs (0: null)
    mediaReqs,     \* PersonPath: the portrait requests, each with its controller
    insightQuery,  \* DataVizMap: useState insightQuery
    selectedCodes, \* DataVizMap: useState selectedCodes
    insightResult, \* DataVizMap: useState insightResult
    insightError,  \* DataVizMap: useState insightError
    insightLoading,\* DataVizMap: useState insightLoading
    numericResults,\* DataVizMap: useState numericResults
    insightAbortRef,    \* DataVizMap: insightAbortRef.current, an index of insightReqs
    insightReqs,   \* DataVizMap: the insight requests, each with its controller
    dvMounted,     \* DataVizMap: the component is mounted
    loadingMap,    \* DataVizMap: useState loadingMap, the codes mapped to true
    errorMap,      \* DataVizMap: useState errorMap, code -> message (NULL: no key)
    featureCollectionByCode, \* DataVizMap: the codes of useState featureCollectionByCode
    boundaryReqs,  \* DataVizMap: the boundary fetches, each with its controller
    activeSlot,    \* the component a behaviour of SpecSlots drives
    wcRef,         \* Wordcloud: the parent holds a ref to the imperative handle
    parserFn,      \* the parsing function a behaviour of SpecParser applies
    parserInput,   \* its argument
    parserOutput,  \* what it returned, once it was called
    descCity,      \* Desc: the cityDetailedName prop
    descText,      \* Desc: useState descText
    descLoading,   \* Desc: useState descLoading
    descError,     \* Desc: useState descError
    descAbortRef,  \* Desc: descAbortRef.current, an index of descReqs (0: null)
    descEffectCtrl,\* Desc: the controller the cleanup of the effect aborts (0: none)
    descReqs,      \* Desc: the requests issued, each with its AbortController
    descMounted,   \* Desc: the component is mounted
    descApplied,   \* Desc: history of the last request that reached a setter (req 0: none)
    jlOrigin,      \* Jumplines: the origin prop is set (NULL: it is not)
    jlCityName,    \* Jumplines: the cityName prop
    jumps,         \* Jumplines: useState jumps
    isLoading,     \* Jumplines: useState isLoading
    jlAbortRef,    \* Jumplines: abortRef.current, an index of jlRuns (0: null)
    jlRuns         \* Jumplines: the async runs started by the fetch effect

timelineVars == <<events, lastCall>>
mapVars == <<clicked, city, cityEnglish, showTimeline, activeView, ppxLoading, ppxError,
             abortRef, geoReqs, trRuns, trCurrent, tlRuns, tlCurrent>>
wcVars == <<wcCity, wcMaxWords, keywords, wcLoading, wcError, wcRuns, wcCurrent,
            wcMounted, wcWrite>>
pathVars == <<hops, ppError, pathRun, geocodeCache>>
mediaVars == <<activePerson, mediaItem, mediaLoading, mediaError, mediaAbortRef, mediaReqs>>
ppVars == <<person, busy, showPanel, personIntroHtml, personIntroLoading,
            personIntroError, introAbortRef, introReqs, pathVars, mediaVars>>
boundaryVars == <<loadingMap, errorMap, featureCollectionByCode, boundaryReqs>>
dvVars == <<insightQuery, selectedCodes, insightResult, insightError, insightLoading,
            numericResults, insightAbortRef, insightReqs, dvMounted, boundaryVars>>
parserVars == <<parserFn, parserInput, parserOutput>>
jlVars == <<jlOrigin, jlCityName, jumps, isLoading, jlAbortRef, jlRuns>>
descVars == <<descCity, descText, descLoading, descError, descAbortRef,
              descEffectCtrl, descReqs, descMounted, descApplied>>

NULL == "null"

(***************************************************************************)
(* Sequences                                                               *)
(***************************************************************************)
Range(s) == {s[i] : i \in 1..Len(s)}

SeqsUpTo(S, n) == UNION {[1..k -> S] : k \in 0..n}

RECURSIVE FilterSeq(_, _)
\* Array.prototype.filter with the predicate "element is in keep"
FilterSeq(s, keep) ==
    IF s = <<>> THEN <<>>
    ELSE IF Head(s) \in keep THEN <<Head(s)>> \o FilterSeq(Tail(s), keep)
         ELSE FilterSeq(Tail(s), keep)

\* String.prototype.trim on the strings of the model; the result of x?.trim()
\* for a null x is given as "", which is as falsy as undefined
Trim(c) ==
    CASE c = NULL -> ""
      [] c = " " -> ""
      [] c = " A" -> "A"
      [] c = "<p>x</p> " -> "<p>x</p>"
      [] OTHER -> c

(***************************************************************************)
(* Dates: new Date(s).getTime() and Date.prototype.toISOString, on the     *)
(* date strings of the model.  Times are counted in days since 1900-01-01; *)
(* a string that is no date has the time NaN.                              *)
(***************************************************************************)
ValidDate(d) ==
    d \in {"1900-01-01", "1900-01-01T00:00:00.000Z",
           "1990-05-01", "1990-05-01T00:00:00.000Z",
           "2020-01-01", "2020-01-01T00:00:00.000Z"}

\* new Date(d).getTime() for a string with ValidDate(d); NaN otherwise
GetTime(d) ==
    CASE d \in {"1900-01-01", "1900-01-01T00:00:00.000Z"} -> 0
      [] d \in {"1990-05-01", "1990-05-01T00:00:00.000Z"} -> 33000
      [] d \in {"2020-01-01", "2020-01-01T00:00:00.000Z"} -> 43829
      [] OTHER -> 0

\* new Date(d).toISOString() for a string with ValidDate(d)
ToISOString(d) ==
    CASE GetTime(d) = 0 -> "1900-01-01T00:00:00.000Z"
      [] GetTime(d) = 33000 -> "1990-05-01T00:00:00.000Z"
      [] OTHER -> "2020-01-01T00:00:00.000Z"

(***************************************************************************)
(* Timeline.tsx                                                            *)
(***************************************************************************)
\* interface TimelineEvent; run is a ghost field: the timeline request that
\* emitted the event (0 for an event that came from no request)
TimelineEvent(id, date, title, description, icon, color, run) ==
    [id |-> id, date |-> date, title |-> title, description |-> description,
     icon |-> icon, color |-> color, run |-> run]

\* the event of a call that takes none (lastCall is a ghost variable)
NoEvent == TimelineEvent(NULL, NULL, NULL, NULL, NULL, NULL, 0)

\* the comparator (a, b) => new Date(a.date).getTime() - new Date(b.date).getTime();
\* a NaN result is taken as +0 by Array.prototype.sort
CompareByDate(a, b) ==
    IF ValidDate(a.date) /\ ValidDate(b.date)
    THEN GetTime(a.date) - GetTime(b.date)
    ELSE 0

\* the comparator is a consistent comparator on the elements of s: with a
\* NaN time equal to everything, two different valid times make it inconsistent
ConsistentOn(s) ==
    \/ \A i \in 1..Len(s) : ValidDate(s[i].date)
    \/ \A i, j \in 1..Len(s) :
          ValidDate(s[i].date) /\ ValidDate(s[j].date)
             => GetTime(s[i].date) = GetTime(s[j].date)

RECURSIVE InsertStable(_, _)
\* place e behind every element that does not compare greater than it
InsertStable(s, e) ==
    IF s = <<>> THEN <<e>>
    ELSE IF CompareByDate(Head(s), e) <= 0
         THEN <<Head(s)>> \o InsertStable(Tail(s), e)
         ELSE <<e>> \o s

RECURSIVE StableSort(_)
StableSort(s) ==
    IF s = <<>> THEN <<>>
    ELSE InsertStable(StableSort(SubSeq(s, 1, Len(s) - 1)), s[Len(s)])

\* Array.prototype.sort(comparator): the stable sort for a consistent
\* comparator, an implementation-defined permutation otherwise
SortByDate(s) ==
    IF ConsistentOn(s) THEN {StableSort(s)}
    ELSE {[i \in 1..Len(s) |-> s[p[i]]] : p \in Permutations(1..Len(s))}

Ids(s) == {s[i].id : i \in 1..Len(s)}

\* addEvent as an upsert that replaces the record of the id
AddEventUpsert(prev, event) ==
    SortByDate(FilterSeq(prev, {x \in Range(prev) : x.id # event.id}) \o <<event>>)

\* the updater of addEvent: prev => ...
AddEventUpdater(prev, event) ==
    IF event.id \in Ids(prev) THEN {prev}
    ELSE SortByDate(prev \o <<event>>)

\* the updater of the effect on the events prop: prev => ...
EventsPropUpdater(prev, initialEvents) ==
    LET newEvents == FilterSeq(initialEvents,
                               {x \in Range(initialEvents) : x.id \notin Ids(prev)})
    IN  IF Len(newEvents) = 0 THEN {prev}
        ELSE SortByDate(prev \o newEvents)

(***************************************************************************)
(* Bounds and inputs of the Timeline store                                 *)
(***************************************************************************)
MaxEvents == 3      \* addEvent is called while the list is shorter
MaxProp == 2        \* length of an events prop

InputIds == {"1", "2", "3"}
InputDates == {"2020-01-01", "1990-05-01", "unknown"}
InputEvents ==
    {TimelineEvent(i, d, "X", "", "", "", 0) : i \in InputIds, d \in InputDates}
EventsProps == SeqsUpTo(InputEvents, MaxProp)

\* mount: useState(initialEvents), then the effect on [initialEvents]
TimelineMount(initialEvents) ==
    /\ events \in EventsPropUpdater(initialEvents, initialEvents)
    /\ lastCall = [op |-> "mount", dup |-> FALSE, event |-> NoEvent]

\* handle.addEvent(event)
addEvent(event) ==
    /\ Len(events) < MaxEvents
    /\ events' \in AddEventUpdater(events, event)
    /\ lastCall' = [op |-> "addEvent", dup |-> event.id \in Ids(events),
                    event |-> event]

\* handle.clearEvents()
clearEvents ==
    /\ events' = <<>>
    /\ lastCall' = [op |-> "clearEvents", dup |-> FALSE, event |-> NoEvent]

\* the parent renders the Timeline with another events prop
EventsPropChange(initialEvents) ==
    /\ Len(events) < MaxEvents
    /\ events' \in EventsPropUpdater(events, initialEvents)
    /\ lastCall' = [op |-> "props", dup |-> FALSE, event |-> NoEvent]

(***************************************************************************)
(* Response texts: a text is a sequence of tokens, a token being a piece   *)
(* of prose, a bracket, a comma or a JSON object.  A JSON value of an      *)
(* object is kept with its type, as typeof sees it.                        *)
(***************************************************************************)
Str(x) == [type |-> "string", s |-> x, n |-> 0]
Num(x) == [type |-> "number", s |-> "", n |-> x]
Undefined == [type |-> "undefined", s |-> "", n |-> 0]

RawObject(id, date, title, description, icon, color) ==
    [id |-> id, date |-> date, title |-> title, description |-> description,
     icon |-> icon, color |-> color]

EmptyObject == RawObject(Undefined, Undefined, Undefined, Undefined, Undefined, Undefined)

Prose == [t |-> "prose", v |-> EmptyObject]
LBracket == [t |-> "[", v |-> EmptyObject]
RBracket == [t |-> "]", v |-> EmptyObject]
Comma == [t |-> ",", v |-> EmptyObject]
Obj(o) == [t |-> "obj", v |-> o]

\* a text between an opening and a closing bracket, whatever it holds
IsBracketed(text) ==
    /\ Len(text) >= 2
    /\ text[1].t = "["
    /\ text[Len(text)].t = "]"

\* JSON.parse(text) returns an array: "[" value ("," value)* "]" or "[" "]"
IsJsonArray(text) ==
    /\ Len(text) >= 2
    /\ text[1].t = "["
    /\ text[Len(text)].t = "]"
    /\ \/ Len(text) = 2
       \/ /\ Len(text) % 2 = 1
          /\ \A i \in 2..(Len(text) - 1) :
                IF i % 2 = 0 THEN text[i].t = "obj" ELSE text[i].t = ","

\* the array JSON.parse(text) returns, for a text with IsJsonArray(text)
JsonArray(text) ==
    [i \in 1..((Len(text) - 1) \div 2) |-> text[2 * i].v]

\* text.indexOf(c) and text.lastIndexOf(c), 1-based, 0 for "not found"
IndexOf(text, c) ==
    IF \E i \in 1..Len(text) : text[i].t = c
    THEN CHOOSE i \in 1..Len(text) :
            text[i].t = c /\ \A j \in 1..(i - 1) : text[j].t # c
    ELSE 0

LastIndexOf(text, c) ==
    IF \E i \in 1..Len(text) : text[i].t = c
    THEN CHOOSE i \in 1..Len(text) :
            text[i].t = c /\ \A j \in (i + 1)..Len(text) : text[j].t # c
    ELSE 0

(***************************************************************************)
(* Map.tsx: ClickableMap, its reverse geocoding, its translation effect    *)
(* and its timeline effect                                                 *)
(***************************************************************************)
\* tryParseEvents.toIso
toIso(d) ==
    IF d.type # "string" \/ Trim(d.s) = "" THEN ToISOString("1900-01-01")
    ELSE IF ~ValidDate(d.s) THEN ToISOString("1900-01-01")
    ELSE ToISOString(d.s)

\* coerce with the field values taken as they come, "" for one of another type
coerceWithoutDefaults(arr) ==
    [idx \in 1..Len(arr) |->
        LET it == arr[idx]
        IN  TimelineEvent(it.id.s, it.date.s, it.title.s, it.description.s,
                          it.icon.s, it.color.s, 0)]

\* tryParseEvents.coerce; String(idx + 1) is ToString of the 1-based index
coerce(arr) ==
    [idx \in 1..Len(arr) |->
        LET it == arr[idx]
        IN  TimelineEvent(
                IF it.id.type = "string" THEN it.id.s ELSE ToString(idx),
                toIso(it.date),
                IF it.title.type = "string" THEN it.title.s ELSE "Untitled",
                IF it.description.type = "string" THEN it.description.s ELSE "",
                IF it.icon.type = "string" THEN it.icon.s ELSE "calendar",
                IF it.color.type = "string" THEN it.color.s ELSE "#3498db",
                0)]

tryParseEvents(text) ==
    IF IsJsonArray(text) THEN coerce(JsonArray(text))
    ELSE LET first == IndexOf(text, "[")
             last == LastIndexOf(text, "]")
         IN  IF first # 0 /\ last # 0 /\ last > first
                  /\ IsJsonArray(SubSeq(text, first, last))
             THEN coerce(JsonArray(SubSeq(text, first, last)))
             ELSE <<>>

\* AbortController.abort() on the controller of request k (0: the ref is null)
AbortCtrl(reqs, k) ==
    IF k = 0 THEN reqs ELSE [reqs EXCEPT ![k].aborted = TRUE]

MaxClicks == 2      \* map clicks in one run
MaxTlRuns == 3      \* timeline queries issued in one run

\* what the geocoder answers: a scoped name, no name, or a failure
GeoOutcomes ==
    {[ok |-> TRUE, name |-> "A"], [ok |-> TRUE, name |-> "B"],
     [ok |-> TRUE, name |-> NULL], [ok |-> FALSE, name |-> NULL]}

\* what translatePOI(city) settles with
TranslateOutcomes(c) ==
    {[ok |-> TRUE, text |-> c], [ok |-> TRUE, text |-> "EN"],
     [ok |-> TRUE, text |-> " "], [ok |-> FALSE, text |-> NULL]}

ObjA == RawObject(Str("1"), Str("2020-01-01"), Str("X"), Str("d"), Undefined, Undefined)
ObjB == RawObject(Str("2"), Str("1990-05-01"), Str("Y"), Undefined, Str("i"), Str("#fff"))
ObjC == RawObject(Num(1), Str("unknown"), Undefined, Undefined, Undefined, Undefined)

\* what proSearchText settles with: {text} or a thrown error
MapTexts ==
    {<<Prose>>,
     <<LBracket, RBracket>>,
     <<Prose, LBracket, Obj(ObjA), Comma, Obj(ObjB), RBracket, Prose>>,
     <<LBracket, Obj(ObjC), RBracket>>}

SearchOutcomes ==
    {[ok |-> TRUE, text |-> t, message |-> NULL] : t \in MapTexts}
    \cup {[ok |-> FALSE, text |-> <<>>, message |-> "HTTP 500"],
          [ok |-> FALSE, text |-> <<>>, message |-> NULL]}

\* timelineRef.current is not null: TimelinePanel is rendered and shows the Timeline
PanelShown == clicked /\ showTimeline

\* TimelinePanel renders <Timeline ref={timelineRef}> in the timeline view only
TimelineMounted == PanelShown /\ activeView = "timeline"

GeoRequest == [aborted |-> FALSE, pending |-> TRUE, logged |-> FALSE]

\* cancelled = true in the cleanup of the translation effect
CancelRun(runs, r) ==
    IF r = 0 THEN runs ELSE [runs EXCEPT ![r].cancelled = TRUE]

\* timelineRef.current?.addEvent(events[i]), the event tagged with its run
\* the emission loop with the call of addEvent left out
AddToTimelineSkipped(event, r) == UNCHANGED <<events, lastCall>>

\* timelineRef.current?.addEvent(event) of run r
AddToTimeline(event, r) ==
    IF TimelineMounted
    THEN /\ events' \in AddEventUpdater(events, [event EXCEPT !.run = r])
         /\ lastCall' = [op |-> "addEvent", dup |-> event.id \in Ids(events),
                         event |-> [event EXCEPT !.run = r]]
    ELSE UNCHANGED <<events, lastCall>>

\* the timeline effect with the committed city c and cityEnglish en; mounted:
\* timelineRef.current is not null when the effect runs
TimelineEffect(c, en, mounted) ==
    LET scopedCity == IF Trim(en) # "" THEN Trim(en) ELSE Trim(c)
    IN  /\ events' = <<>>
        /\ lastCall' = IF mounted
                       THEN [op |-> "clearEvents", dup |-> FALSE, event |-> NoEvent]
                       ELSE lastCall
        /\ ppxError' = NULL
        /\ IF scopedCity = ""
           THEN /\ ppxLoading' = FALSE
                /\ tlCurrent' = 0
                /\ UNCHANGED tlRuns
           ELSE /\ ppxLoading' = TRUE
                /\ tlRuns' = Append(tlRuns, [city |-> scopedCity, pc |-> "search",
                                             text |-> <<>>, parsed |-> <<>>,
                                             i |-> 0])
                /\ tlCurrent' = Len(tlRuns) + 1

\* onMapClick: setClicked, setShowTimeline(true), reverseGeocode up to its
\* fetch, then the effects of the commit
onMapClick ==
    /\ Len(geoReqs) < MaxClicks
    /\ clicked' = TRUE
    /\ showTimeline' = TRUE
    /\ activeView' = IF city # NULL THEN "timeline" ELSE activeView
    /\ geoReqs' = Append(AbortCtrl(geoReqs, abortRef), GeoRequest)
    /\ abortRef' = Len(geoReqs) + 1
    /\ city' = NULL
    /\ cityEnglish' = NULL
    /\ IF city # NULL
       THEN trRuns' = CancelRun(trRuns, trCurrent) /\ trCurrent' = 0
       ELSE UNCHANGED <<trRuns, trCurrent>>
    /\ IF city # NULL \/ cityEnglish # NULL
       THEN TimelineEffect(NULL, NULL, TRUE)
       ELSE /\ events' = IF TimelineMounted THEN events ELSE <<>>
            /\ UNCHANGED <<lastCall, ppxLoading, ppxError, tlRuns, tlCurrent>>

\* the fetch of reverseGeocode settles: setCity / setCityEnglish unless the
\* controller is aborted, then the effects of the commit
GeocodeSettle(k, outcome) ==
    /\ geoReqs[k].pending
    /\ geoReqs' = [geoReqs EXCEPT ![k].pending = FALSE,
                                  ![k].logged = ~geoReqs[k].aborted /\ ~outcome.ok]
    /\ UNCHANGED <<clicked, abortRef>>
    /\ activeView' = IF ~geoReqs[k].aborted /\ outcome.ok /\ outcome.name # city
                     THEN "timeline" ELSE activeView
    /\ IF ~geoReqs[k].aborted /\ outcome.ok
       THEN /\ city' = outcome.name
            /\ cityEnglish' = outcome.name
            /\ IF outcome.name # city
               THEN IF outcome.name = NULL
                    THEN trRuns' = CancelRun(trRuns, trCurrent) /\ trCurrent' = 0
                    ELSE /\ trRuns' = Append(CancelRun(trRuns, trCurrent),
                                             [city |-> outcome.name, cancelled |-> FALSE,
                                              pending |-> TRUE])
                         /\ trCurrent' = Len(trRuns) + 1
               ELSE UNCHANGED <<trRuns, trCurrent>>
            /\ IF outcome.name # city \/ outcome.name # cityEnglish
               THEN /\ Len(tlRuns) < MaxTlRuns
                    /\ TimelineEffect(outcome.name, outcome.name, TimelineMounted)
                    /\ showTimeline' = (showTimeline \/ Trim(outcome.name) # "")
               ELSE UNCHANGED <<events, lastCall, ppxLoading, ppxError, tlRuns,
                                tlCurrent, showTimeline>>
       ELSE UNCHANGED <<city, cityEnglish, trRuns, trCurrent, events, lastCall,
                        ppxLoading, ppxError, tlRuns, tlCurrent, showTimeline>>

\* translatePOI of translation run r settles: setCityEnglish unless cancelled,
\* then the timeline effect if cityEnglish changed
TranslateSettle(r, outcome) ==
    LET translated == IF outcome.ok /\ Trim(outcome.text) # ""
                      THEN Trim(outcome.text) ELSE trRuns[r].city
    IN  /\ trRuns[r].pending
        /\ trRuns' = [trRuns EXCEPT ![r].pending = FALSE]
        /\ UNCHANGED <<clicked, city, abortRef, geoReqs, trCurrent, activeView>>
        /\ IF ~trRuns[r].cancelled
           THEN /\ cityEnglish' = translated
                /\ IF translated # cityEnglish
                   THEN /\ Len(tlRuns) < MaxTlRuns
                        /\ TimelineEffect(city, translated, TimelineMounted)
                        /\ showTimeline' = TRUE
                   ELSE UNCHANGED <<events, lastCall, ppxLoading, ppxError, tlRuns,
                                    tlCurrent, showTimeline>>
           ELSE UNCHANGED <<cityEnglish, events, lastCall, ppxLoading, ppxError,
                            tlRuns, tlCurrent, showTimeline>>

\* proSearchText of timeline run r settles: tryParseEvents and the first
\* addEvent, or the error, up to the next await or the end of the function
TimelineQuerySettle(r, outcome) ==
    LET parsed == tryParseEvents(outcome.text)
    IN  /\ tlRuns[r].pc = "search"
        /\ UNCHANGED <<clicked, city, cityEnglish, showTimeline, abortRef, geoReqs,
                       trRuns, trCurrent, tlCurrent, activeView>>
        /\ IF ~outcome.ok
           THEN /\ ppxError' = IF outcome.message # NULL THEN outcome.message
                                ELSE "Failed to generate timeline"
                /\ ppxLoading' = FALSE
                /\ tlRuns' = [tlRuns EXCEPT ![r].pc = "done"]
                /\ UNCHANGED <<events, lastCall>>
           ELSE IF Len(parsed) = 0
           THEN /\ ppxError' = "No events parsed from model response"
                /\ ppxLoading' = FALSE
                /\ tlRuns' = [tlRuns EXCEPT ![r].pc = "done", ![r].text = outcome.text]
                /\ UNCHANGED <<events, lastCall>>
           ELSE /\ AddToTimeline(parsed[1], r)
                /\ tlRuns' = [tlRuns EXCEPT ![r].pc = "emit", ![r].parsed = parsed,
                                            ![r].text = outcome.text, ![r].i = 1]
                /\ UNCHANGED <<ppxLoading, ppxError>>

\* the 250 ms timer of the emission loop of run r fires: the next addEvent,
\* or the end of the loop and the finally block
TimelineEmitStep(r) ==
    /\ tlRuns[r].pc = "emit"
    /\ UNCHANGED <<clicked, city, cityEnglish, showTimeline, abortRef, geoReqs,
                   trRuns, trCurrent, tlCurrent, ppxError, activeView>>
    /\ IF tlRuns[r].i < Len(tlRuns[r].parsed)
       THEN /\ AddToTimeline(tlRuns[r].parsed[tlRuns[r].i + 1], r)
            /\ tlRuns' = [tlRuns EXCEPT ![r].i = tlRuns[r].i + 1]
            /\ UNCHANGED ppxLoading
       ELSE /\ ppxLoading' = FALSE
            /\ tlRuns' = [tlRuns EXCEPT ![r].pc = "done"]
            /\ UNCHANGED <<events, lastCall>>

\* onClose of TimelinePanel: setShowTimeline(false) unmounts the Timeline
closeTimeline ==
    /\ PanelShown
    /\ showTimeline' = FALSE
    /\ activeView' = "timeline"
    /\ events' = <<>>
    /\ UNCHANGED <<lastCall, clicked, city, cityEnglish, ppxLoading, ppxError,
                   abortRef, geoReqs, trRuns, trCurrent, tlRuns, tlCurrent>>

\* the "Insights" button, rendered while showTimeline is false:
\* setShowTimeline(true) mounts TimelinePanel and a Timeline of no events
openTimeline ==
    /\ ~showTimeline
    /\ showTimeline' = TRUE
    /\ activeView' = "timeline"
    /\ events' = <<>>
    /\ UNCHANGED <<lastCall, clicked, city, cityEnglish, ppxLoading, ppxError,
                   abortRef, geoReqs, trRuns, trCurrent, tlRuns, tlCurrent>>

\* the "Timeline" and "Word Cloud" tabs of TimelinePanel: the view that is
\* left is unmounted, and the Timeline that is mounted starts with no events
setActiveView(view) ==
    /\ PanelShown
    /\ view = "wordcloud" => (city # NULL \/ cityEnglish # NULL)
    /\ activeView' = view
    /\ events' = IF view = activeView THEN events ELSE <<>>
    /\ UNCHANGED <<lastCall, clicked, city, cityEnglish, showTimeline, ppxLoading,
                   ppxError, abortRef, geoReqs, trRuns, trCurrent, tlRuns, tlCurrent>>

\* the first render of ClickableMap
MapMount ==
    /\ clicked = FALSE
    /\ city = NULL
    /\ cityEnglish = NULL
    /\ showTimeline = TRUE
    /\ activeView = "timeline"
    /\ ppxLoading = FALSE
    /\ ppxError = NULL
    /\ abortRef = 0
    /\ geoReqs = <<>>
    /\ trRuns = <<>>
    /\ trCurrent = 0
    /\ tlRuns = <<>>
    /\ tlCurrent = 0

(***************************************************************************)
(* Desc.tsx: the description slot                                          *)
(***************************************************************************)
MaxDescReqs == 3    \* description requests issued in one run

\* values of the cityDetailedName prop
DescCities == {NULL, " ", "A", " A", "B"}

\* what normalSearchText settles with: {text} or a thrown error
DescOutcomes ==
    {[ok |-> TRUE, text |-> "<p>x</p> ", message |-> NULL],
     [ok |-> FALSE, text |-> NULL, message |-> "HTTP 500"],
     [ok |-> FALSE, text |-> NULL, message |-> NULL]}

\* the request record of fetchDescription(targetCity, ctrl): normalSearchText
\* is called with {prompt, searchType} and no signal; discarded is a ghost
\* field: the request settled when its controller was aborted
DescRequest(targetCity) ==
    [city |-> targetCity, aborted |-> FALSE, pending |-> TRUE, signal |-> FALSE,
     discarded |-> FALSE]

\* the guard "!ctrl.signal.aborted" in front of every setter of fetchDescription
DescAppliesUnchecked(k) == TRUE

DescApplies(k) == ~descReqs[k].aborted

\* the effect on [cityDetailedName]: the cleanup of the previous run, then the body
DescEffect(c) ==
    LET cleaned == AbortCtrl(descReqs, descEffectCtrl)
        cancelled == AbortCtrl(cleaned, descAbortRef)
    IN  IF Trim(c) = ""
        THEN /\ descReqs' = cancelled
             /\ descText' = NULL
             /\ descError' = NULL
             /\ descLoading' = FALSE
             /\ descEffectCtrl' = 0
             /\ UNCHANGED descAbortRef
        ELSE /\ descReqs' = Append(cancelled, DescRequest(Trim(c)))
             /\ descAbortRef' = Len(descReqs) + 1
             /\ descEffectCtrl' = Len(descReqs) + 1
             /\ descLoading' = TRUE
             /\ descError' = NULL
             /\ descText' = NULL

\* the parent passes another cityDetailedName
DescCityChange(c) ==
    /\ descMounted
    /\ c # descCity
    /\ Len(descReqs) < MaxDescReqs
    /\ descCity' = c
    /\ DescEffect(c)
    /\ UNCHANGED <<descMounted, descApplied>>

\* onRetry, reached from the "Try again" button of the error view
DescRetry ==
    /\ descMounted
    /\ ~descLoading /\ descError # NULL
    /\ Trim(descCity) # ""
    /\ Len(descReqs) < MaxDescReqs
    /\ descReqs' = Append(AbortCtrl(descReqs, descAbortRef), DescRequest(Trim(descCity)))
    /\ descAbortRef' = Len(descReqs) + 1
    /\ descLoading' = TRUE
    /\ descError' = NULL
    /\ descText' = NULL
    /\ UNCHANGED <<descCity, descEffectCtrl, descMounted, descApplied>>

\* normalSearchText of request k settles: try / catch / finally of fetchDescription
DescSettle(k, outcome) ==
    /\ descReqs[k].pending
    /\ descReqs' = [descReqs EXCEPT ![k].pending = FALSE,
                                    ![k].discarded = ~DescApplies(k)]
    /\ IF DescApplies(k)
       THEN /\ descApplied' = [req |-> k, aborted |-> descReqs[k].aborted,
                               latest |-> k = Len(descReqs)]
            /\ IF descMounted
               THEN /\ descLoading' = FALSE
                    /\ IF outcome.ok
                       THEN descText' = Trim(outcome.text) /\ UNCHANGED descError
                       ELSE /\ descError' = IF outcome.message # NULL
                                             THEN outcome.message
                                             ELSE "Failed to fetch description"
                            /\ UNCHANGED descText
               ELSE UNCHANGED <<descText, descError, descLoading>>
       ELSE UNCHANGED <<descText, descError, descLoading, descApplied>>
    /\ UNCHANGED <<descCity, descAbortRef, descEffectCtrl, descMounted>>

\* Desc unmounts: the cleanup of the effect
DescUnmount ==
    /\ descMounted
    /\ descMounted' = FALSE
    /\ descReqs' = AbortCtrl(descReqs, descEffectCtrl)
    /\ UNCHANGED <<descCity, descText, descError, descLoading, descAbortRef,
                   descEffectCtrl, descApplied>>

\* mount with cityDetailedName = c: the useState initial values, then the effect
DescMount(c) ==
    /\ descCity = c
    /\ descMounted = TRUE
    /\ descApplied = [req |-> 0, aborted |-> FALSE, latest |-> TRUE]
    /\ descText = NULL
    /\ descError = NULL
    /\ descLoading = (Trim(c) # "")
    /\ descReqs = IF Trim(c) = "" THEN <<>> ELSE <<DescRequest(Trim(c))>>
    /\ descAbortRef = IF Trim(c) = "" THEN 0 ELSE 1
    /\ descEffectCtrl = IF Trim(c) = "" THEN 0 ELSE 1

(***************************************************************************)
(* Wordcloud: normalizeKeywords, extractJsonArray, the fetch effect and    *)
(* onRetry                                                                 *)
(***************************************************************************)
batch == 8

\* String.prototype.toLowerCase on the words of the model
Lower(w) ==
    CASE w = "W1" -> "w1"
      [] w = "A" -> "a"
      [] w = "B" -> "b"
      [] OTHER -> w

clamp(v, min, max) == IF v < min THEN min ELSE IF v > max THEN max ELSE v

Keyword(word, weight) == [word |-> word, weight |-> weight]

KwToken(t, word, weight) == [t |-> t, v |-> Keyword(word, weight)]
KwObj(word, weight) == KwToken("obj", word, weight)
KwProse == KwToken("prose", Undefined, Undefined)
KwLBracket == KwToken("[", Undefined, Undefined)
KwRBracket == KwToken("]", Undefined, Undefined)
KwComma == KwToken(",", Undefined, Undefined)

RECURSIVE NormalizeFrom(_, _, _, _)
\* the loop of normalizeKeywords over the rest of the array
NormalizeFrom(arr, maxWords, seen, out) ==
    IF arr = <<>> THEN out
    ELSE LET raw == Head(arr)
             w == IF raw.word.type = "string" THEN Trim(raw.word.s) ELSE ""
             weight == IF raw.weight.type = "number" THEN raw.weight.n ELSE 1
             key == Lower(w)
         IN  IF w = "" \/ key \in seen
             THEN NormalizeFrom(Tail(arr), maxWords, seen, out)
             ELSE LET pushed == Append(out, Keyword(w, clamp(weight, 1, 100)))
                  IN  IF Len(pushed) >= maxWords THEN pushed
                      ELSE NormalizeFrom(Tail(arr), maxWords, seen \cup {key}, pushed)

normalizeKeywords(items, maxWords) == NormalizeFrom(items, maxWords, {}, <<>>)

extractJsonArray(text) ==
    IF IsJsonArray(text) THEN JsonArray(text)
    ELSE LET first == IndexOf(text, "[")
             last == LastIndexOf(text, "]")
         IN  IF first # 0 /\ last # 0 /\ last > first
                  /\ IsJsonArray(SubSeq(text, first, last))
             THEN JsonArray(SubSeq(text, first, last))
             ELSE <<>>

MaxWcRuns == 3      \* keyword queries issued in one run
MaxHandleRuns == 2  \* the same, in a run whose parent drives the handle
WcRunsBound == IF wcRef THEN MaxHandleRuns ELSE MaxWcRuns

WcCities == {NULL, "A", "B"}
WcMaxWordsProps == {60, 8, 0}

\* a response with nine keywords: two batches when maxWords allows them
NineKeywords ==
    <<KwLBracket, KwObj(Str("w1"), Num(5)), KwComma, KwObj(Str("w2"), Num(5)),
      KwComma, KwObj(Str("w3"), Num(5)), KwComma, KwObj(Str("w4"), Num(5)),
      KwComma, KwObj(Str("w5"), Num(5)), KwComma, KwObj(Str("w6"), Num(5)),
      KwComma, KwObj(Str("w7"), Num(5)), KwComma, KwObj(Str("w8"), Num(5)),
      KwComma, KwObj(Str("w9"), Num(5)), KwRBracket>>

WcTexts ==
    {<<KwProse>>,
     <<KwProse, KwLBracket, KwObj(Str("W1"), Num(200)), KwComma,
       KwObj(Str("w1"), Undefined), KwComma, KwObj(Str(" "), Num(3)), KwRBracket>>,
     NineKeywords}

WcOutcomes ==
    {[ok |-> TRUE, text |-> t, message |-> NULL] : t \in WcTexts}
    \cup {[ok |-> FALSE, text |-> <<>>, message |-> "HTTP 500"],
          [ok |-> FALSE, text |-> <<>>, message |-> NULL]}

\* an async run: kind "effect" has the cancelled flag of its closure, kind
\* "retry" has none; superseded is a ghost field: a later trigger, a change
\* of the props or the unmount has happened since the run was started
WcRun(kind, c, m) ==
    [kind |-> kind, city |-> c, maxWords |-> m, cancelled |-> FALSE,
     superseded |-> FALSE, pc |-> "search", normalized |-> <<>>, i |-> 0]

Supersede(runs) == [r \in 1..Len(runs) |-> [runs[r] EXCEPT !.superseded = TRUE]]

\* the tests "if (cancelled) return" and "if (!cancelled)" of the effect's run;
\* the run of onRetry has no such test
WcCancelledAfterSearch(r) == wcRuns[r].kind = "effect" /\ wcRuns[r].cancelled

WcCancelledAfterBatchIgnored(r) == FALSE

WcCancelledAfterBatch(r) == wcRuns[r].kind = "effect" /\ wcRuns[r].cancelled

WcCancelledInHandlers(r) == wcRuns[r].kind = "effect" /\ wcRuns[r].cancelled

\* a setter called by run r; React drops it when the component is unmounted
WcRecordWrite(r) ==
    wcWrite' = [run |-> r, kind |-> wcRuns[r].kind, cancelled |-> wcRuns[r].cancelled,
                superseded |-> wcRuns[r].superseded]

\* the effect on [city, maxWords] with the committed props c and m: the
\* cleanup of the previous run, then the body
WcEffect(c, m) ==
    LET cleaned == Supersede(CancelRun(wcRuns, wcCurrent))
    IN  IF c = NULL
        THEN /\ wcRuns' = cleaned
             /\ wcCurrent' = 0
             /\ UNCHANGED <<keywords, wcLoading, wcError>>
        ELSE /\ wcRuns' = Append(cleaned, WcRun("effect", c, m))
             /\ wcCurrent' = Len(wcRuns) + 1
             /\ wcLoading' = TRUE
             /\ wcError' = NULL
             /\ keywords' = <<>>

\* the parent passes another city or another maxWords
WcPropsChange(c, m) ==
    /\ wcMounted
    /\ <<c, m>> # <<wcCity, wcMaxWords>>
    /\ Len(wcRuns) < WcRunsBound
    /\ wcCity' = c
    /\ wcMaxWords' = m
    /\ WcEffect(c, m)
    /\ UNCHANGED <<wcMounted, wcWrite>>

\* onRetry, reached from the button of ErrorView
WcRetry ==
    /\ wcMounted
    /\ ~wcLoading /\ wcError # NULL
    /\ wcCity # NULL
    /\ Len(wcRuns) < WcRunsBound
    /\ keywords' = <<>>
    /\ wcError' = NULL
    /\ wcLoading' = TRUE
    /\ wcRuns' = Append(Supersede(wcRuns), WcRun("retry", wcCity, wcMaxWords))
    /\ UNCHANGED <<wcCity, wcMaxWords, wcCurrent, wcMounted, wcWrite>>

\* proSearchText of run r settles: extractJsonArray, normalizeKeywords and the
\* first batch, or the error, up to the next await or the end of the function
WcSearchSettle(r, outcome) ==
    LET normalized == normalizeKeywords(extractJsonArray(outcome.text),
                                        wcRuns[r].maxWords)
    IN  /\ wcRuns[r].pc = "search"
        /\ UNCHANGED <<wcCity, wcMaxWords, wcCurrent, wcMounted>>
        /\ IF ~outcome.ok
           THEN /\ wcRuns' = [wcRuns EXCEPT ![r].pc = "done"]
                /\ IF WcCancelledInHandlers(r)
                   THEN UNCHANGED <<keywords, wcLoading, wcError, wcWrite>>
                   ELSE /\ WcRecordWrite(r)
                        /\ UNCHANGED keywords
                        /\ IF wcMounted
                           THEN /\ wcError' = IF outcome.message # NULL
                                               THEN outcome.message
                                               ELSE "Failed to fetch keywords"
                                /\ wcLoading' = FALSE
                           ELSE UNCHANGED <<wcLoading, wcError>>
           ELSE IF WcCancelledAfterSearch(r)
           THEN /\ wcRuns' = [wcRuns EXCEPT ![r].pc = "done"]
                /\ IF WcCancelledInHandlers(r)
                   THEN UNCHANGED <<keywords, wcLoading, wcError, wcWrite>>
                   ELSE /\ WcRecordWrite(r)
                        /\ wcLoading' = (wcLoading /\ ~wcMounted)
                        /\ UNCHANGED <<keywords, wcError>>
           ELSE IF Len(normalized) = 0
           THEN /\ wcRuns' = [wcRuns EXCEPT ![r].pc = "done"]
                /\ IF WcCancelledInHandlers(r)
                   THEN UNCHANGED <<keywords, wcLoading, wcError, wcWrite>>
                   ELSE /\ WcRecordWrite(r)
                        /\ wcLoading' = (wcLoading /\ ~wcMounted)
                        /\ UNCHANGED <<keywords, wcError>>
           ELSE /\ wcRuns' = [wcRuns EXCEPT ![r].pc = "emit",
                                            ![r].normalized = normalized,
                                            ![r].i = batch]
                /\ WcRecordWrite(r)
                /\ keywords' = IF wcMounted
                               THEN SubSeq(normalized, 1,
                                           IF Len(normalized) < batch
                                           THEN Len(normalized) ELSE batch)
                               ELSE keywords
                /\ UNCHANGED <<wcLoading, wcError>>

\* the 180 ms timer of the batch loop of run r fires: the test of cancelled,
\* then the next batch, or the end of the loop and the finally block
WcEmitStep(r) ==
    LET normalized == wcRuns[r].normalized
        i == wcRuns[r].i
    IN  /\ wcRuns[r].pc = "emit"
        /\ UNCHANGED <<wcCity, wcMaxWords, wcCurrent, wcMounted, wcError>>
        /\ IF WcCancelledAfterBatch(r)
           THEN /\ wcRuns' = [wcRuns EXCEPT ![r].pc = "done"]
                /\ IF WcCancelledInHandlers(r)
                   THEN UNCHANGED <<keywords, wcLoading, wcWrite>>
                   ELSE /\ WcRecordWrite(r)
                        /\ wcLoading' = (wcLoading /\ ~wcMounted)
                        /\ UNCHANGED keywords
           ELSE IF i < Len(normalized)
           THEN /\ wcRuns' = [wcRuns EXCEPT ![r].i = i + batch]
                /\ WcRecordWrite(r)
                /\ keywords' = IF wcMounted
                               THEN SubSeq(normalized, 1,
                                           IF Len(normalized) < i + batch
                                           THEN Len(normalized) ELSE i + batch)
                               ELSE keywords
                /\ UNCHANGED wcLoading
           ELSE /\ wcRuns' = [wcRuns EXCEPT ![r].pc = "done"]
                /\ IF WcCancelledInHandlers(r)
                   THEN UNCHANGED <<keywords, wcLoading, wcWrite>>
                   ELSE /\ WcRecordWrite(r)
                        /\ wcLoading' = (wcLoading /\ ~wcMounted)
                        /\ UNCHANGED keywords

\* Array.prototype.slice(0, n)
SliceTo(s, n) == IF Len(s) <= n THEN s ELSE SubSeq(s, 1, n)

\* the words of a list, lower-cased: new Set(prev.map((w) => w.word.toLowerCase()))
LowerWords(s) == {Lower(s[i].word) : i \in 1..Len(s)}

\* the setKeywords updater of the handle's addKeyword
AddKeywordUpdater(prev, word, weight, maxWords) ==
    IF Lower(word) \in LowerWords(prev) THEN prev
    ELSE SliceTo(Append(prev, Keyword(word, clamp(weight, 1, 100))), maxWords)

RECURSIVE AdditionsFrom(_, _, _, _, _)
\* the loop of the handle's addKeywords over the rest of words
AdditionsFrom(words, prevLen, maxWords, exists, additions) ==
    IF words = <<>> THEN additions
    ELSE LET w == Head(words)
             key == Lower(w.word)
         IN  IF key = "" \/ key \in exists
             THEN AdditionsFrom(Tail(words), prevLen, maxWords, exists, additions)
             ELSE LET pushed == Append(additions,
                                       Keyword(w.word,
                                               clamp(IF w.weight.type = "number"
                                                     THEN w.weight.n ELSE 1, 1, 100)))
                  IN  IF prevLen + Len(pushed) >= maxWords THEN pushed
                      ELSE AdditionsFrom(Tail(words), prevLen, maxWords,
                                         exists \cup {key}, pushed)

\* the setKeywords updater of the handle's addKeywords
AddKeywordsUpdater(prev, words, maxWords) ==
    SliceTo(prev \o AdditionsFrom(words, Len(prev), maxWords, LowerWords(prev), <<>>),
            maxWords)

\* what a parent passes to addKeyword and addKeywords
HandleWords == {"w1", "W1", ""}
HandleWeights == {200}
HandleLists ==
    {<<Keyword("W1", Num(0)), Keyword("w1", Undefined), Keyword("y", Num(7))>>,
     <<Keyword("", Num(3)), Keyword("x", Undefined)>>}

\* ref.current.addKeyword(word, weight)
addKeyword(word, weight) ==
    /\ wcMounted /\ wcRef
    /\ keywords' = AddKeywordUpdater(keywords, word, weight, wcMaxWords)
    /\ UNCHANGED <<wcCity, wcMaxWords, wcLoading, wcError, wcRuns, wcCurrent,
                   wcMounted, wcWrite>>

\* ref.current.addKeywords(words)
addKeywords(words) ==
    /\ wcMounted /\ wcRef
    /\ keywords' = AddKeywordsUpdater(keywords, words, wcMaxWords)
    /\ UNCHANGED <<wcCity, wcMaxWords, wcLoading, wcError, wcRuns, wcCurrent,
                   wcMounted, wcWrite>>

\* ref.current.clear()
clear ==
    /\ wcMounted /\ wcRef
    /\ keywords' = <<>>
    /\ UNCHANGED <<wcCity, wcMaxWords, wcLoading, wcError, wcRuns, wcCurrent,
                   wcMounted, wcWrite>>

\* Wordcloud unmounts: the cleanup of the effect
WcUnmount ==
    /\ wcMounted
    /\ wcMounted' = FALSE
    /\ wcRuns' = Supersede(CancelRun(wcRuns, wcCurrent))
    /\ UNCHANGED <<wcCity, wcMaxWords, keywords, wcLoading, wcError, wcCurrent,
                   wcWrite>>

\* mount with the props c and m: the useState initial values, then the effect
WcMount(c, m) ==
    /\ wcCity = c
    /\ wcMaxWords = m
    /\ wcMounted = TRUE
    /\ wcWrite = [run |-> 0, kind |-> "effect", cancelled |-> FALSE,
                  superseded |-> FALSE]
    /\ keywords = <<>>
    /\ wcError = NULL
    /\ wcLoading = (c # NULL)
    /\ wcRuns = IF c = NULL THEN <<>> ELSE <<WcRun("effect", c, m)>>
    /\ wcCurrent = IF c = NULL THEN 0 ELSE 1

(***************************************************************************)
(* PPX.ts: takeFirstJsonArray, coerceLifeHops and fetchPersonLifePath      *)
(***************************************************************************)
\* a raw element of the life path array (its sources are not tracked)
RawHop(cityRaw, start_date, end_date, description) ==
    [city |-> cityRaw, start_date |-> start_date, end_date |-> end_date,
     description |-> description]

\* type LifeHop; NULL is undefined
LifeHop(hopCity, startDate, endDate, description) ==
    [city |-> hopCity, startDate |-> startDate, endDate |-> endDate,
     description |-> description]

\* normalizeDateLike: YYYY, YYYY-MM or YYYY-MM-DD, trimmed; undefined otherwise
normalizeDateLike(input) ==
    IF input.type # "string" THEN NULL
    ELSE IF Trim(input.s) = "" THEN NULL
    ELSE IF Trim(input.s) \in {"1990", "1990-05", "1990-05-01", "2020-01-01"}
    THEN Trim(input.s)
    ELSE NULL

\* takeFirstJsonArray; isNull: the function returns null
takeFirstJsonArray(text) ==
    IF IsJsonArray(text) THEN [isNull |-> FALSE, arr |-> JsonArray(text)]
    ELSE LET a == IndexOf(text, "[")
             b == LastIndexOf(text, "]")
         IN  IF a # 0 /\ b # 0 /\ b > a /\ IsJsonArray(SubSeq(text, a, b))
             THEN [isNull |-> FALSE, arr |-> JsonArray(SubSeq(text, a, b))]
             ELSE [isNull |-> TRUE, arr |-> <<>>]

RECURSIVE HopsFrom(_)
\* the first loop of coerceLifeHops: the elements with a city, coerced
HopsFrom(rawArr) ==
    IF rawArr = <<>> THEN <<>>
    ELSE LET obj == Head(rawArr)
             hopCity == IF obj.city.type = "string" THEN Trim(obj.city.s) ELSE ""
         IN  IF hopCity = "" THEN HopsFrom(Tail(rawArr))
             ELSE <<LifeHop(hopCity, normalizeDateLike(obj.start_date),
                            normalizeDateLike(obj.end_date),
                            IF obj.description.type = "string"
                            THEN Trim(obj.description.s) ELSE NULL)>>
                  \o HopsFrom(Tail(rawArr))

RECURSIVE DedupFrom(_, _)
\* the second loop of coerceLifeHops over the rest of hopList
DedupFrom(hopList, dedup) ==
    IF hopList = <<>> THEN dedup
    ELSE LET h == Head(hopList)
         IN  IF dedup # <<>>
                  /\ Lower(Trim(dedup[Len(dedup)].city)) = Lower(Trim(h.city))
             THEN DedupFrom(Tail(hopList), dedup)
             ELSE DedupFrom(Tail(hopList), Append(dedup, h))

\* the second loop with the test of the previous hop left out
DedupKeepingAll(hopList) == hopList

\* the second loop of coerceLifeHops
Dedup(hopList) == DedupFrom(hopList, <<>>)

coerceLifeHops(rawArr) == Dedup(HopsFrom(rawArr))

\* fetchPersonLifePath after its await, on the text of the answer
fetchPersonLifePath(text) ==
    LET arr == takeFirstJsonArray(text)
    IN  IF arr.isNull THEN <<>> ELSE coerceLifeHops(arr.arr)

(***************************************************************************)
(* Jumplines.tsx: parseCityList                                            *)
(***************************************************************************)
RawCity(name, reason, category) ==
    [name |-> name, reason |-> reason, category |-> category]

\* type JumpCity; NULL is undefined
JumpCity(name, reason, category) ==
    [name |-> name, reason |-> reason, category |-> category]

RECURSIVE CoerceCities(_)
\* parseCityList.coerce: map, then filter((x) => x.name)
CoerceCities(arr) ==
    IF arr = <<>> THEN <<>>
    ELSE LET it == Head(arr)
             name == IF it.name.type = "string" THEN it.name.s ELSE ""
         IN  IF name = "" THEN CoerceCities(Tail(arr))
             ELSE <<JumpCity(name,
                             IF it.reason.type = "string" THEN it.reason.s ELSE NULL,
                             IF it.category.type = "string" THEN it.category.s
                             ELSE NULL)>>
                  \o CoerceCities(Tail(arr))

parseCityList(text) ==
    IF IsJsonArray(text) THEN CoerceCities(JsonArray(text))
    ELSE LET first == IndexOf(text, "[")
             last == LastIndexOf(text, "]")
         IN  IF first # 0 /\ last # 0 /\ last > first
                  /\ IsJsonArray(SubSeq(text, first, last))
             THEN CoerceCities(JsonArray(SubSeq(text, first, last)))
             ELSE <<>>

(***************************************************************************)
(* Jumplines.tsx: the effect that asks for the related cities and geocodes *)
(* them with a pool of workers sharing one index                           *)
(***************************************************************************)
MaxJlRuns == 2      \* runs of the fetch effect that create a controller
concurrency == 4    \* const concurrency = 4
queueCap == 10      \* list.slice(0, 10)

JumpOrigins == {NULL, "O"}
JumpCityNames == {NULL, "A", "B"}

RECURSIVE CityArrayItems(_)
\* the tokens of the city objects of the given names, separated by commas
CityArrayItems(names) ==
    IF names = <<>> THEN <<>>
    ELSE IF Len(names) = 1
         THEN <<Obj(RawCity(Str(names[1]), Undefined, Undefined))>>
         ELSE <<Obj(RawCity(Str(names[1]), Str("r"), Undefined)), Comma>>
                 \o CityArrayItems(Tail(names))

\* an answer that is a JSON array of the cities of the given names
CityArrayText(names) == <<LBracket>> \o CityArrayItems(names) \o <<RBracket>>

\* the answers of the related cities query: prose only, an empty array, three
\* cities, and one city listed five times and eleven times (the long answers
\* repeat a city, so that out is the same whatever the order of the pushes)
JumpTexts ==
    {<<Prose>>, CityArrayText(<<>>), CityArrayText(<<"c1", "c2", "c3">>),
     CityArrayText([i \in 1..5 |-> "c1"]), CityArrayText([i \in 1..11 |-> "c1"])}

JumpSearchOutcomes ==
    {[ok |-> FALSE, text |-> <<>>]} \cup {[ok |-> TRUE, text |-> t] : t \in JumpTexts}

\* geocodeCity: a position, null, or the rejection of fetch
JumpGeocodeOutcomes == {"pos", "null", "throw"}

\* type JumpDatum; the target is the position geocodeCity returned
JumpDatum(item) ==
    [name |-> item.name,
     category |-> IF item.category = NULL THEN "facts" ELSE item.category,
     reason |-> item.reason]

\* a run of the async function of the effect, with its controller and isActive;
\* idx counts the takes of the shared index, inFlight holds the 1-based queue
\* positions whose geocodeCity call is awaited, requested counts the calls
\* of geocodeCity per position, setCalls the calls of setJumps(out)
JumpRun ==
    [aborted |-> FALSE, isActive |-> TRUE, pc |-> "search", list |-> <<>>,
     queue |-> <<>>, idx |-> 0, inFlight |-> {}, requested |-> <<>>, out |-> <<>>,
     rejected |-> FALSE, setCalls |-> 0]

\* run after the cleanup of its effect: isActive = false; controller.abort().
\* The fetches of geocodeCity reject at once and every worker ends with them;
\* the locals of the run are dropped, nothing reads them again.
Aborted(run) ==
    IF run.pc = "search" THEN [run EXCEPT !.isActive = FALSE, !.aborted = TRUE]
    ELSE [JumpRun EXCEPT !.isActive = FALSE, !.aborted = TRUE, !.pc = "done"]

\* one pass of a worker through the head of its loop: const i = idx++;
\* if (i >= queue.length) break; ... geocodeCity(item.name, controller.signal)
TakeNext(run) ==
    LET pos == run.idx + 1
    IN  IF pos > Len(run.queue) THEN [run EXCEPT !.idx = @ + 1]
        ELSE [run EXCEPT !.idx = @ + 1,
                         !.inFlight = @ \cup {pos},
                         !.requested = [@ EXCEPT ![pos] = @ + 1]]

RECURSIVE StartWorkers(_, _)
\* [...Array(concurrency)].map(async () => ...): each worker runs to its first await
StartWorkers(run, n) ==
    IF n = 0 THEN run ELSE StartWorkers(TakeNext(run), n - 1)

\* the finally block of run k
JumpFinally(k, run) ==
    IF run.isActive
    THEN /\ isLoading' = FALSE
         /\ jlAbortRef' = IF jlAbortRef = k THEN 0 ELSE jlAbortRef
    ELSE UNCHANGED <<isLoading, jlAbortRef>>

JumplinesMount ==
    /\ jlOrigin = NULL
    /\ jlCityName = NULL
    /\ jumps = <<>>
    /\ isLoading = FALSE
    /\ jlAbortRef = 0
    /\ jlRuns = <<>>

\* the fetch effect on a change of origin or cityName: the cleanup of the
\* previous effect, then the body
JumplinesEffect(origin, cityName) ==
    LET prev == IF jlOrigin # NULL /\ jlCityName # NULL THEN Len(jlRuns) ELSE 0
        cleaned == [k \in 1..Len(jlRuns) |->
                        IF k = prev THEN Aborted(jlRuns[k]) ELSE jlRuns[k]]
        refAfterCleanup == IF prev # 0 /\ jlAbortRef = prev THEN 0 ELSE jlAbortRef
        aborted == [k \in 1..Len(cleaned) |->
                        IF k = refAfterCleanup
                        THEN [cleaned[k] EXCEPT !.aborted = TRUE]
                        ELSE cleaned[k]]
    IN  /\ <<origin, cityName>> # <<jlOrigin, jlCityName>>
        /\ jlOrigin' = origin
        /\ jlCityName' = cityName
        /\ jumps' = <<>>
        /\ IF origin = NULL \/ cityName = NULL
           THEN /\ isLoading' = FALSE
                /\ jlAbortRef' = 0
                /\ jlRuns' = aborted
           ELSE /\ Len(jlRuns) < MaxJlRuns
                /\ isLoading' = TRUE
                /\ jlAbortRef' = Len(jlRuns) + 1
                /\ jlRuns' = Append(aborted, JumpRun)

\* normalSearchText settles for run k
JumpSearchSettle(k, outcome) ==
    LET run == jlRuns[k]
        list == parseCityList(outcome.text)
        queue == SubSeq(list, 1, IF Len(list) < queueCap THEN Len(list) ELSE queueCap)
        started == StartWorkers([run EXCEPT !.pc = "pool", !.list = list,
                                            !.queue = queue,
                                            !.requested = [i \in 1..Len(queue) |-> 0]],
                                concurrency)
    IN  /\ k \in 1..Len(jlRuns)
        /\ run.pc = "search"
        /\ UNCHANGED <<jlOrigin, jlCityName, jumps>>
        /\ IF ~outcome.ok \/ run.aborted \/ list = <<>>
           THEN /\ jlRuns' = [jlRuns EXCEPT ![k].pc = "done",
                                            ![k].rejected = ~outcome.ok]
                /\ JumpFinally(k, run)
           ELSE /\ jlRuns' = [jlRuns EXCEPT ![k] = started]
                /\ UNCHANGED <<isLoading, jlAbortRef>>

\* the geocodeCity call for queue position i of run k settles: the worker
\* pushes the position it got and takes the next index, or ends; when the
\* last worker ends, the function continues after Promise.all
JumpGeocodeSettle(k, i, outcome) ==
    LET run == jlRuns[k]
        landed == [run EXCEPT !.inFlight = @ \ {i}]
        pushed == IF outcome = "pos"
                  THEN [landed EXCEPT !.out = Append(@, JumpDatum(run.queue[i]))]
                  ELSE landed
        next == IF run.aborted \/ outcome = "throw" THEN landed ELSE TakeNext(pushed)
        fails == outcome = "throw" /\ ~run.rejected
        joins == next.inFlight = {} /\ ~run.rejected /\ outcome # "throw"
    IN  /\ k \in 1..Len(jlRuns)
        /\ run.pc = "pool"
        /\ i \in run.inFlight
        /\ UNCHANGED <<jlOrigin, jlCityName>>
        /\ jlRuns' = [jlRuns EXCEPT ![k] =
                        [next EXCEPT !.pc = IF next.inFlight = {} THEN "done" ELSE @,
                                     !.rejected = @ \/ outcome = "throw",
                                     !.setCalls = IF joins /\ ~run.aborted
                                                  THEN @ + 1 ELSE @]]
        /\ jumps' = IF joins /\ ~run.aborted THEN next.out ELSE jumps
        /\ IF fails \/ joins THEN JumpFinally(k, run)
           ELSE UNCHANGED <<isLoading, jlAbortRef>>

(***************************************************************************)
(* PersonPath.tsx: the person intro slot of runSearch and onRetryIntro     *)
(***************************************************************************)
MaxIntroReqs == 3   \* intro requests issued in one run

Persons == {"", " ", "P", "Q"}

IntroOutcomes ==
    {[ok |-> TRUE, text |-> "<p>x</p> ", message |-> NULL],
     [ok |-> FALSE, text |-> NULL, message |-> "HTTP 500"],
     [ok |-> FALSE, text |-> NULL, message |-> NULL]}

\* the request of the intro: normalSearchText({prompt, searchType, signal})
IntroRequest(name) ==
    [person |-> name, aborted |-> FALSE, pending |-> TRUE, signal |-> TRUE]

\* a new controller installed with the previous one left as it is
IntroAbortSkipped(reqs, k) == reqs

\* introAbortRef.current?.abort() in front of the new controller
IntroAbortPrevious(reqs, k) == AbortCtrl(reqs, k)

MaxMediaReqs == 2   \* portrait requests issued in one run

\* what fetchPersonMedia settles with: a list of media or a thrown error
MediaOutcomes ==
    {[ok |-> TRUE, item |-> "img", message |-> NULL],
     [ok |-> TRUE, item |-> NULL, message |-> NULL],
     [ok |-> FALSE, item |-> NULL, message |-> "HTTP 500"]}

\* the request of fetchPersonImage: fetchPersonMedia(personName, ctrl.signal)
\* discarded is a ghost field: the request settled when its controller was
\* aborted
MediaRequest(name) ==
    [person |-> name, aborted |-> FALSE, pending |-> TRUE, signal |-> TRUE,
     discarded |-> FALSE]

\* the guard "!ctrl.signal.aborted" in front of every setter of fetchPersonImage
MediaAppliesUnchecked(k) == TRUE

MediaApplies(k) == ~mediaReqs[k].aborted

\* the effect on [activePerson, showPanel]: the cleanup of the previous run,
\* then the body with fetchPersonImage up to its await
MediaEffect(ap, shown) ==
    LET cancelled == AbortCtrl(mediaReqs, mediaAbortRef)
    IN  IF ~shown \/ ap = NULL
        THEN /\ mediaReqs' = cancelled
             /\ mediaLoading' = FALSE
             /\ mediaError' = NULL
             /\ mediaItem' = NULL
             /\ UNCHANGED mediaAbortRef
        ELSE /\ Len(mediaReqs) < MaxMediaReqs
             /\ mediaReqs' = Append(cancelled, MediaRequest(ap))
             /\ mediaAbortRef' = Len(mediaReqs) + 1
             /\ mediaLoading' = TRUE
             /\ mediaError' = NULL
             /\ mediaItem' = NULL

\* onChange of the search field
setPerson(p) ==
    /\ ~busy
    /\ p # person
    /\ person' = p
    /\ UNCHANGED <<busy, showPanel, personIntroHtml, personIntroLoading,
                   personIntroError, introAbortRef, introReqs, pathVars, mediaVars>>

\* runSearch(person), submitted by the search form, up to its first await:
\* the portrait is reset, the intro request is started and the life path is
\* requested; the render that follows runs the effect on [activePerson,
\* showPanel] when one of the two has changed
runSearch ==
    /\ ~busy
    /\ Trim(person) # ""
    /\ Len(introReqs) < MaxIntroReqs
    /\ busy' = TRUE
    /\ showPanel' = TRUE
    /\ introReqs' = Append(IntroAbortPrevious(introReqs, introAbortRef),
                           IntroRequest(Trim(person)))
    /\ introAbortRef' = Len(introReqs) + 1
    /\ personIntroLoading' = TRUE
    /\ personIntroError' = NULL
    /\ personIntroHtml' = NULL
    /\ ppError' = NULL
    /\ pathRun' = [pc |-> "fetch", raw |-> <<>>, out |-> <<>>, i |-> 0]
    /\ activePerson' = Trim(person)
    /\ IF activePerson # Trim(person) \/ ~showPanel
       THEN MediaEffect(Trim(person), TRUE)
       ELSE /\ mediaReqs' = AbortCtrl(mediaReqs, mediaAbortRef)
            /\ mediaItem' = NULL
            /\ mediaError' = NULL
            /\ mediaLoading' = FALSE
            /\ UNCHANGED mediaAbortRef
    /\ UNCHANGED <<person, hops, geocodeCache>>

\* the error runSearch shows for every failure
NotFamous == "The person is not very famous, try another one!"

PathIdle == [pc |-> "idle", raw |-> <<>>, out |-> <<>>, i |-> 0]

\* type GeocodedHop: { ...hop, lat, lon }
GeocodedHop(hop, pos) ==
    [city |-> hop.city, startDate |-> hop.startDate, endDate |-> hop.endDate,
     description |-> hop.description, lat |-> pos.lat, lon |-> pos.lon]

\* what proSearchText of fetchPersonLifePath settles with
PathOutcomes ==
    {[ok |-> TRUE, text |-> <<Prose>>],
     [ok |-> TRUE, text |-> <<LBracket, Obj(RawHop(Str("A"), Str("1990"), Undefined, Str("d"))),
                              RBracket>>],
     [ok |-> TRUE, text |-> <<Prose, LBracket,
                              Obj(RawHop(Str("A"), Str("1990"), Undefined, Str("d"))), Comma,
                              Obj(RawHop(Str("B"), Undefined, Undefined, Undefined)), Comma,
                              Obj(RawHop(Str(" A"), Str("2020-01-01"), Undefined, Undefined)),
                              RBracket>>],
     [ok |-> FALSE, text |-> <<>>]}

\* what one geocodeCity call that is not answered from the cache settles with
GeocodeOutcomes ==
    {[kind |-> "pos", lat |-> 1, lon |-> 2], [kind |-> "none", lat |-> 0, lon |-> 0],
     [kind |-> "throw", lat |-> 0, lon |-> 0]}

\* runSearch after await fetchPersonLifePath: the test of raw.length, then
\* the first geocodeCity call, or the catch block; then the finally block
PathSettle(outcome) ==
    LET raw == fetchPersonLifePath(outcome.text)
    IN  /\ pathRun.pc = "fetch"
        /\ UNCHANGED <<person, showPanel, personIntroHtml, personIntroLoading,
                       personIntroError, introAbortRef, introReqs, geocodeCache,
                       mediaVars>>
        /\ IF ~outcome.ok
           THEN /\ ppError' = NotFamous
                /\ busy' = FALSE
                /\ pathRun' = PathIdle
                /\ UNCHANGED hops
           ELSE IF Len(raw) <= 2
           THEN /\ ppError' = NotFamous
                /\ hops' = <<>>
                /\ busy' = FALSE
                /\ pathRun' = PathIdle
           ELSE /\ pathRun' = [pc |-> "geocode", raw |-> raw, out |-> <<>>, i |-> 1]
                /\ UNCHANGED <<hops, ppError, busy>>

\* runSearch after await geocodeCity(hop.city) of hop i: the hop is kept with
\* its position or skipped, then the next call, or the end of the loop with
\* the test of out.length; or the catch block; then the finally block
GeocodeStep(outcome) ==
    LET hop == pathRun.raw[pathRun.i]
        key == Lower(Trim(hop.city))
        out == IF outcome.kind = "pos"
               THEN Append(pathRun.out, GeocodedHop(hop, outcome))
               ELSE pathRun.out
    IN  /\ pathRun.pc = "geocode"
        /\ key \in geocodeCache => outcome.kind = "pos"
        /\ UNCHANGED <<person, showPanel, personIntroHtml, personIntroLoading,
                       personIntroError, introAbortRef, introReqs, mediaVars>>
        /\ geocodeCache' = IF outcome.kind = "pos" THEN geocodeCache \cup {key}
                           ELSE geocodeCache
        /\ IF outcome.kind = "throw"
           THEN /\ ppError' = NotFamous
                /\ busy' = FALSE
                /\ pathRun' = PathIdle
                /\ UNCHANGED hops
           ELSE IF pathRun.i < Len(pathRun.raw)
           THEN /\ pathRun' = [pathRun EXCEPT !.out = out, !.i = pathRun.i + 1]
                /\ UNCHANGED <<hops, ppError, busy>>
           ELSE /\ busy' = FALSE
                /\ pathRun' = PathIdle
                /\ IF Len(out) < 2
                   THEN ppError' = NotFamous /\ hops' = <<>>
                   ELSE hops' = out /\ UNCHANGED ppError

\* onRetryIntro, reached from the "Try again" button of the intro panel
onRetryIntro ==
    /\ showPanel
    /\ ~personIntroLoading /\ personIntroError # NULL
    /\ Trim(person) # ""
    /\ Len(introReqs) < MaxIntroReqs
    /\ introReqs' = Append(IntroAbortPrevious(introReqs, introAbortRef),
                           IntroRequest(Trim(person)))
    /\ introAbortRef' = Len(introReqs) + 1
    /\ personIntroLoading' = TRUE
    /\ personIntroError' = NULL
    /\ personIntroHtml' = NULL
    /\ UNCHANGED <<person, busy, showPanel, pathVars, mediaVars>>

\* normalSearchText of intro request k settles; for an aborted controller it
\* rejects with an AbortError
IntroSettle(k, outcome) ==
    /\ introReqs[k].pending
    /\ introReqs' = [introReqs EXCEPT ![k].pending = FALSE]
    /\ UNCHANGED <<person, busy, showPanel, introAbortRef, pathVars, mediaVars>>
    /\ IF introReqs[k].aborted
       THEN UNCHANGED <<personIntroHtml, personIntroLoading, personIntroError>>
       ELSE /\ personIntroLoading' = FALSE
            /\ IF outcome.ok
               THEN /\ personIntroHtml' = Trim(outcome.text)
                    /\ UNCHANGED personIntroError
               ELSE /\ personIntroError' = IF outcome.message # NULL
                                            THEN outcome.message
                                            ELSE "Failed to fetch intro"
                    /\ UNCHANGED personIntroHtml

\* fetchPersonMedia of portrait request k settles: try / catch / finally of
\* fetchPersonImage; for an aborted controller it rejects with an AbortError
MediaSettle(k, outcome) ==
    /\ mediaReqs[k].pending
    /\ mediaReqs' = [mediaReqs EXCEPT ![k].pending = FALSE,
                                      ![k].discarded = mediaReqs[k].aborted]
    /\ UNCHANGED <<person, busy, showPanel, personIntroHtml, personIntroLoading,
                   personIntroError, introAbortRef, introReqs, pathVars,
                   activePerson, mediaAbortRef>>
    /\ IF ~MediaApplies(k)
       THEN UNCHANGED <<mediaItem, mediaLoading, mediaError>>
       ELSE /\ mediaLoading' = FALSE
            /\ IF outcome.ok
               THEN mediaItem' = outcome.item /\ UNCHANGED mediaError
               ELSE /\ mediaError' = IF outcome.message # NULL THEN outcome.message
                                      ELSE "Unable to load imagery"
                    /\ UNCHANGED mediaItem

\* the close button of the panel and the "Overview" button; the render that
\* follows runs the effect on [activePerson, showPanel]
togglePanel ==
    /\ showPanel' = ~showPanel
    /\ MediaEffect(activePerson, ~showPanel)
    /\ UNCHANGED <<person, busy, personIntroHtml, personIntroLoading,
                   personIntroError, introAbortRef, introReqs, pathVars, activePerson>>

\* the first render of PersonPath
PersonPathMount ==
    /\ person = ""
    /\ busy = FALSE
    /\ showPanel = FALSE
    /\ personIntroHtml = NULL
    /\ personIntroLoading = FALSE
    /\ personIntroError = NULL
    /\ introAbortRef = 0
    /\ introReqs = <<>>
    /\ hops = <<>>
    /\ ppError = NULL
    /\ pathRun = PathIdle
    /\ geocodeCache = {}
    /\ activePerson = NULL
    /\ mediaItem = NULL
    /\ mediaLoading = FALSE
    /\ mediaError = NULL
    /\ mediaAbortRef = 0
    /\ mediaReqs = <<>>

(***************************************************************************)
(* DataVizMap.tsx: the insight slot of handleInsightSubmit                 *)
(***************************************************************************)
MaxInsightReqs == 3 \* insight requests issued in one run

InsightQueries == {"", "gdp"}
CountryCodes == {"USA"}

\* what proSearchText settles with and what parseNumericResponse makes of it
InsightOutcomes ==
    {[ok |-> TRUE, text |-> "{values}", values |-> <<1>>, error |-> NULL, message |-> NULL],
     [ok |-> TRUE, text |-> "none", values |-> <<>>, error |-> "Could not parse", message |-> NULL],
     [ok |-> TRUE, text |-> "", values |-> <<>>, error |-> NULL, message |-> NULL],
     [ok |-> FALSE, text |-> NULL, values |-> <<>>, error |-> NULL, message |-> "HTTP 500"]}

\* the request of handleInsightSubmit: proSearchText({prompt, searchType, signal})
InsightRequest == [aborted |-> FALSE, pending |-> TRUE, signal |-> TRUE]

MaxBoundaryReqs == 2    \* boundary fetches issued in one run

\* what the fetch of /geo/<code>/ADM0 settles with: a collection with or
\* without polygons, or a thrown error
BoundaryOutcomes ==
    {[ok |-> TRUE, polygons |-> TRUE, message |-> NULL],
     [ok |-> TRUE, polygons |-> FALSE, message |-> NULL],
     [ok |-> FALSE, polygons |-> FALSE, message |-> "GeoJSON fetch failed (500)"]}

\* the fetch of the boundary effect for one code: fetch(downloadUrl) gets no
\* signal; aborted is the state of the controller the effect made for it
BoundaryRequest(code) ==
    [code |-> code, aborted |-> FALSE, pending |-> TRUE, signal |-> FALSE]

\* the cleanup of the boundary effect: every controller of the run is aborted
AbortAll(reqs) == [k \in 1..Len(reqs) |-> [reqs[k] EXCEPT !.aborted = TRUE]]

\* toFetch.forEach: one controller and one fetch per code
RECURSIVE StartFetches(_, _)
StartFetches(reqs, toFetch) ==
    IF toFetch = {} THEN reqs
    ELSE LET code == CHOOSE c \in toFetch : TRUE
         IN  StartFetches(Append(reqs, BoundaryRequest(code)), toFetch \ {code})

\* one run of the boundary effect for the committed selectedList,
\* featureCollectionByCode and loadingMap: the cleanup of the run before,
\* then the body; the requests and the loadingMap it leaves
BoundaryEffectRun(reqs, selected, loaded, loading) ==
    LET toFetch == selected \ (loaded \cup loading)
    IN  [reqs |-> StartFetches(AbortAll(reqs), toFetch),
         loading |-> loading \cup toFetch]

\* the effect on [selectedList, featureCollectionByCode, loadingMap] after a
\* commit: one run, and, when that run has changed loadingMap, the run of
\* the commit that follows
BoundaryEffect(reqs, selected, loaded, loading) ==
    LET first == BoundaryEffectRun(reqs, selected, loaded, loading)
        last == IF first.loading # loading
                THEN BoundaryEffectRun(first.reqs, selected, loaded, first.loading)
                ELSE first
    IN  /\ Len(last.reqs) <= MaxBoundaryReqs
        /\ boundaryReqs' = last.reqs
        /\ loadingMap' = last.loading

\* onChange of the query field
setInsightQuery(q) ==
    /\ dvMounted
    /\ ~insightLoading
    /\ q # insightQuery
    /\ insightQuery' = q
    /\ UNCHANGED <<selectedCodes, insightResult, insightError, insightLoading,
                   numericResults, insightAbortRef, insightReqs, dvMounted,
                   boundaryVars>>

\* toggleCode: a country of the list is ticked or unticked, then the boundary
\* effect of the commit (centroidByCode, which it also edits, is not tracked)
toggleCode(code) ==
    LET selected == IF code \in selectedCodes THEN selectedCodes \ {code}
                    ELSE selectedCodes \cup {code}
        loading == IF code \in selectedCodes THEN loadingMap \ {code}
                   ELSE loadingMap
    IN  /\ dvMounted
        /\ selectedCodes' = selected
        /\ errorMap' = IF code \in selectedCodes THEN [errorMap EXCEPT ![code] = NULL]
                       ELSE errorMap
        /\ BoundaryEffect(boundaryReqs, selected, featureCollectionByCode, loading)
        /\ UNCHANGED <<insightQuery, insightResult, insightError, insightLoading,
                       numericResults, insightAbortRef, insightReqs, dvMounted,
                       featureCollectionByCode>>

\* clearSelection: the "Clear" button of the country list, then the boundary
\* effect of the commit
clearSelection ==
    /\ dvMounted
    /\ selectedCodes' = {}
    /\ errorMap' = [c \in CountryCodes |-> NULL]
    /\ BoundaryEffect(boundaryReqs, {}, featureCollectionByCode, {})
    /\ numericResults' = <<>>
    /\ insightResult' = NULL
    /\ insightError' = NULL
    /\ UNCHANGED <<insightQuery, insightLoading, insightAbortRef, insightReqs,
                   dvMounted, featureCollectionByCode>>

\* the fetch of boundary request k settles: try / catch / finally of the
\* boundary effect, then the effect of the commit when featureCollectionByCode
\* or loadingMap has changed
BoundarySettle(k, outcome) ==
    LET code == boundaryReqs[k].code
        loaded == IF outcome.ok THEN featureCollectionByCode \cup {code}
                  ELSE featureCollectionByCode
        loading == IF boundaryReqs[k].aborted THEN loadingMap
                   ELSE loadingMap \ {code}
        settled == [boundaryReqs EXCEPT ![k].pending = FALSE]
    IN  /\ boundaryReqs[k].pending
        /\ UNCHANGED <<insightQuery, selectedCodes, insightResult, insightError,
                       insightLoading, numericResults, insightAbortRef, insightReqs,
                       dvMounted>>
        /\ IF ~dvMounted
           THEN /\ boundaryReqs' = settled
                /\ UNCHANGED <<loadingMap, errorMap, featureCollectionByCode>>
           ELSE /\ errorMap' = [errorMap EXCEPT ![code] =
                                   IF ~outcome.ok THEN outcome.message
                                   ELSE IF ~outcome.polygons THEN "Geometry unavailable"
                                   ELSE NULL]
                /\ featureCollectionByCode' = loaded
                /\ IF loaded # featureCollectionByCode \/ loading # loadingMap
                   THEN BoundaryEffect(settled, selectedCodes, loaded, loading)
                   ELSE boundaryReqs' = settled /\ loadingMap' = loading

\* handleInsightSubmit, submitted by the query form, up to its await
handleInsightSubmit ==
    /\ dvMounted
    /\ ~insightLoading
    /\ UNCHANGED <<insightQuery, selectedCodes, dvMounted, boundaryVars>>
    /\ IF Trim(insightQuery) = ""
       THEN /\ insightError' = "Enter a topic to query."
            /\ UNCHANGED <<insightResult, insightLoading, numericResults,
                           insightAbortRef, insightReqs>>
       ELSE IF selectedCodes = {}
       THEN /\ insightError' = "Select at least one country first."
            /\ UNCHANGED <<insightResult, insightLoading, numericResults,
                           insightAbortRef, insightReqs>>
       ELSE /\ Len(insightReqs) < MaxInsightReqs
            /\ insightReqs' = Append(AbortCtrl(insightReqs, insightAbortRef),
                                     InsightRequest)
            /\ insightAbortRef' = Len(insightReqs) + 1
            /\ insightLoading' = TRUE
            /\ insightError' = NULL
            /\ insightResult' = NULL
            /\ numericResults' = <<>>

\* proSearchText of insight request k settles; for an aborted controller it
\* rejects with an AbortError
InsightSettle(k, outcome) ==
    /\ insightReqs[k].pending
    /\ insightReqs' = [insightReqs EXCEPT ![k].pending = FALSE]
    /\ UNCHANGED <<insightQuery, selectedCodes, insightAbortRef, dvMounted,
                   boundaryVars>>
    /\ IF insightReqs[k].aborted \/ ~dvMounted
       THEN UNCHANGED <<insightResult, insightError, insightLoading, numericResults>>
       ELSE /\ insightLoading' = FALSE
            /\ IF outcome.ok
               THEN /\ insightResult' = outcome.text
                    /\ IF Len(outcome.values) = 0
                       THEN /\ insightError' = IF outcome.error # NULL THEN outcome.error
                                                ELSE "No numeric data returned."
                            /\ UNCHANGED numericResults
                       ELSE /\ numericResults' = outcome.values
                            /\ UNCHANGED insightError
               ELSE /\ insightError' = outcome.message
                    /\ UNCHANGED <<insightResult, numericResults>>

\* DataVizMap unmounts: the cleanup insightAbortRef.current?.abort()
DataVizUnmount ==
    /\ dvMounted
    /\ dvMounted' = FALSE
    /\ insightReqs' = AbortCtrl(insightReqs, insightAbortRef)
    /\ boundaryReqs' = AbortAll(boundaryReqs)
    /\ UNCHANGED <<insightQuery, selectedCodes, insightResult, insightError,
                   insightLoading, numericResults, insightAbortRef, loadingMap,
                   errorMap, featureCollectionByCode>>

\* the first render of DataVizMap
DataVizMount ==
    /\ insightQuery = ""
    /\ selectedCodes = {}
    /\ insightResult = NULL
    /\ insightError = NULL
    /\ insightLoading = FALSE
    /\ numericResults = <<>>
    /\ insightAbortRef = 0
    /\ insightReqs = <<>>
    /\ dvMounted = TRUE
    /\ loadingMap = {}
    /\ errorMap = [c \in CountryCodes |-> NULL]
    /\ featureCollectionByCode = {}
    /\ boundaryReqs = <<>>

(***************************************************************************)
(* Specifications                                                          *)
(***************************************************************************)
vars == <<timelineVars, mapVars, descVars, wcVars, ppVars, dvVars, activeSlot, wcRef, parserVars, jlVars>>

\* no parsing function is applied on its own
ParserIdle ==
    /\ parserFn = "none"
    /\ parserInput = <<>>
    /\ parserOutput = [done |-> FALSE, isNull |-> FALSE, value |-> <<>>]

\* the variables an action of a component leaves alone
exceptTimeline == <<mapVars, descVars, wcVars, ppVars, dvVars, activeSlot, wcRef, parserVars, jlVars>>
exceptMap == <<descVars, wcVars, ppVars, dvVars, activeSlot, wcRef, parserVars, jlVars>>
exceptDesc == <<timelineVars, mapVars, wcVars, ppVars, dvVars, activeSlot, wcRef, parserVars, jlVars>>
exceptWordcloud == <<timelineVars, mapVars, descVars, ppVars, dvVars, activeSlot, wcRef, parserVars, jlVars>>
exceptPersonPath == <<timelineVars, mapVars, descVars, wcVars, dvVars, activeSlot, wcRef, parserVars, jlVars>>
exceptDataViz == <<timelineVars, mapVars, descVars, wcVars, ppVars, activeSlot, wcRef, parserVars, jlVars>>

InitTimelineVars == TimelineMount(<<>>)
InitDescVars == DescMount(NULL)
InitWcVars == WcMount(NULL, 60)

\* the Timeline on its own, mounted with any events prop
InitTimeline ==
    /\ \E p \in EventsProps : TimelineMount(p)
    /\ MapMount /\ InitDescVars /\ InitWcVars /\ PersonPathMount /\ DataVizMount
    /\ activeSlot = "none" /\ wcRef = FALSE /\ ParserIdle /\ JumplinesMount

NextTimeline ==
    \/ \E e \in InputEvents : addEvent(e) /\ UNCHANGED exceptTimeline
    \/ clearEvents /\ UNCHANGED exceptTimeline
    \/ \E p \in EventsProps : EventsPropChange(p) /\ UNCHANGED exceptTimeline

SpecTimeline == InitTimeline /\ [][NextTimeline]_vars

\* Desc on its own, mounted with any cityDetailedName
InitDesc ==
    /\ \E c \in DescCities : DescMount(c)
    /\ InitTimelineVars /\ MapMount /\ InitWcVars /\ PersonPathMount /\ DataVizMount
    /\ activeSlot = "none" /\ wcRef = FALSE /\ ParserIdle /\ JumplinesMount

NextDesc ==
    \/ \E c \in DescCities : DescCityChange(c) /\ UNCHANGED exceptDesc
    \/ DescRetry /\ UNCHANGED exceptDesc
    \/ \E k \in 1..Len(descReqs), o \in DescOutcomes :
          DescSettle(k, o) /\ UNCHANGED exceptDesc
    \/ DescUnmount /\ UNCHANGED exceptDesc

SpecDesc == InitDesc /\ [][NextDesc]_vars

\* ClickableMap with its Timeline
InitMap ==
    /\ InitTimelineVars /\ MapMount
    /\ InitDescVars /\ InitWcVars /\ PersonPathMount /\ DataVizMount
    /\ activeSlot = "none" /\ wcRef = FALSE /\ ParserIdle /\ JumplinesMount

NextMap ==
    \/ onMapClick /\ UNCHANGED exceptMap
    \/ \E k \in 1..Len(geoReqs), o \in GeoOutcomes :
          GeocodeSettle(k, o) /\ UNCHANGED exceptMap
    \/ \E r \in 1..Len(trRuns) : \E o \in TranslateOutcomes(trRuns[r].city) :
          TranslateSettle(r, o) /\ UNCHANGED exceptMap
    \/ \E r \in 1..Len(tlRuns), o \in SearchOutcomes :
          TimelineQuerySettle(r, o) /\ UNCHANGED exceptMap
    \/ \E r \in 1..Len(tlRuns) : TimelineEmitStep(r) /\ UNCHANGED exceptMap
    \/ closeTimeline /\ UNCHANGED exceptMap

SpecMap == InitMap /\ [][NextMap]_vars

\* the 250 ms timer of some emission loop fires
EmitProgress ==
    \E r \in 1..Len(tlRuns) : TimelineEmitStep(r) /\ UNCHANGED exceptMap

\* responses of the timeline query: those of MapTexts, one whose second
\* element gets the id of the first, and one of three elements
EmissionOutcomes ==
    SearchOutcomes
    \cup {[ok |-> TRUE, message |-> NULL,
           text |-> <<LBracket, Obj(ObjB), Comma, Obj(ObjC), RBracket>>],
          [ok |-> TRUE, message |-> NULL,
           text |-> <<LBracket, Obj(ObjA), Comma, Obj(ObjB), Comma, Obj(ObjC),
                      RBracket>>]}

\* ClickableMap after one click whose reverse geocoding has answered c: the
\* translation and the timeline query of c are in flight
InitEmission ==
    /\ InitDescVars /\ InitWcVars /\ PersonPathMount /\ DataVizMount
    /\ activeSlot = "none" /\ wcRef = FALSE /\ ParserIdle /\ JumplinesMount
    /\ \E c \in {"A", "B"} :
          /\ clicked = TRUE /\ showTimeline = TRUE /\ activeView = "timeline"
          /\ city = c /\ cityEnglish = c
          /\ ppxLoading = TRUE /\ ppxError = NULL
          /\ abortRef = 1
          /\ geoReqs = <<[GeoRequest EXCEPT !.pending = FALSE]>>
          /\ trRuns = <<[city |-> c, cancelled |-> FALSE, pending |-> TRUE]>>
          /\ trCurrent = 1
          /\ tlRuns = <<[city |-> c, pc |-> "search", text |-> <<>>,
                         parsed |-> <<>>, i |-> 0]>>
          /\ tlCurrent = 1
          /\ events = <<>>
          /\ lastCall = [op |-> "clearEvents", dup |-> FALSE, event |-> NoEvent]

\* what follows that click when no other click comes
NextEmission ==
    \/ \E r \in 1..Len(trRuns) : \E o \in TranslateOutcomes(trRuns[r].city) :
          TranslateSettle(r, o) /\ UNCHANGED exceptMap
    \/ \E r \in 1..Len(tlRuns), o \in EmissionOutcomes :
          TimelineQuerySettle(r, o) /\ UNCHANGED exceptMap
    \/ EmitProgress
    \/ closeTimeline /\ UNCHANGED exceptMap

\* one selection with timers that fire: a pending setTimeout(r, 250) of the
\* emission loop is eventually run by the event loop
SpecEmission == InitEmission /\ [][NextEmission]_vars /\ WF_vars(EmitProgress)

\* the ClickableMap that has the "Insights" button (cityName and
\* cityDetailedName are city and cityEnglish here, and there is no
\* translation), after one click whose reverse geocoding has answered c: the
\* timeline query of c is in flight
InitPanel ==
    /\ InitDescVars /\ InitWcVars /\ PersonPathMount /\ DataVizMount
    /\ activeSlot = "none" /\ wcRef = FALSE /\ ParserIdle /\ JumplinesMount
    /\ \E c \in {"A", "B"} :
          /\ clicked = TRUE /\ showTimeline = TRUE /\ activeView = "timeline"
          /\ city = c /\ cityEnglish = c
          /\ ppxLoading = TRUE /\ ppxError = NULL
          /\ abortRef = 1
          /\ geoReqs = <<[GeoRequest EXCEPT !.pending = FALSE]>>
          /\ trRuns = <<>>
          /\ trCurrent = 0
          /\ tlRuns = <<[city |-> c, pc |-> "search", text |-> <<>>,
                         parsed |-> <<>>, i |-> 0]>>
          /\ tlCurrent = 1
          /\ events = <<>>
          /\ lastCall = [op |-> "clearEvents", dup |-> FALSE, event |-> NoEvent]

\* the timeline query of that selection and the buttons of the panel
NextPanel ==
    \/ \E r \in 1..Len(tlRuns), o \in EmissionOutcomes :
          TimelineQuerySettle(r, o) /\ UNCHANGED exceptMap
    \/ EmitProgress
    \/ closeTimeline /\ UNCHANGED exceptMap
    \/ openTimeline /\ UNCHANGED exceptMap
    \/ \E v \in {"timeline", "wordcloud"} : setActiveView(v) /\ UNCHANGED exceptMap

SpecPanel == InitPanel /\ [][NextPanel]_vars

\* Wordcloud on its own, mounted with any props
InitWordcloud ==
    /\ \E c \in WcCities, m \in WcMaxWordsProps : WcMount(c, m)
    /\ InitTimelineVars /\ MapMount /\ InitDescVars /\ PersonPathMount /\ DataVizMount
    /\ activeSlot = "none" /\ wcRef = FALSE /\ ParserIdle /\ JumplinesMount

NextWordcloud ==
    \/ \E c \in WcCities, m \in WcMaxWordsProps :
          WcPropsChange(c, m) /\ UNCHANGED exceptWordcloud
    \/ WcRetry /\ UNCHANGED exceptWordcloud
    \/ \E r \in 1..Len(wcRuns), o \in WcOutcomes :
          WcSearchSettle(r, o) /\ UNCHANGED exceptWordcloud
    \/ \E r \in 1..Len(wcRuns) : WcEmitStep(r) /\ UNCHANGED exceptWordcloud
    \/ WcUnmount /\ UNCHANGED exceptWordcloud

SpecWordcloud == InitWordcloud /\ [][NextWordcloud]_vars

\* Wordcloud with a parent that drives its imperative handle
InitKeywordStore ==
    /\ \E c \in WcCities, m \in WcMaxWordsProps : WcMount(c, m)
    /\ InitTimelineVars /\ MapMount /\ InitDescVars /\ PersonPathMount /\ DataVizMount
    /\ activeSlot = "none" /\ wcRef = TRUE /\ ParserIdle /\ JumplinesMount

NextKeywordStore ==
    \/ NextWordcloud
    \/ \E w \in HandleWords, g \in HandleWeights :
          addKeyword(w, g) /\ UNCHANGED exceptWordcloud
    \/ \E ws \in HandleLists : addKeywords(ws) /\ UNCHANGED exceptWordcloud
    \/ clear /\ UNCHANGED exceptWordcloud

SpecKeywordStore == InitKeywordStore /\ [][NextKeywordStore]_vars

\* the parsing functions, each applied to an argument of its kind
MaxTextLen == 5     \* tokens of a response text
MaxHops == 4        \* elements of a raw life path array

EventTexts ==
    SeqsUpTo({Prose, LBracket, RBracket, Comma, Obj(ObjA), Obj(ObjC)}, MaxTextLen)
KeywordTexts ==
    SeqsUpTo({KwProse, KwLBracket, KwRBracket, KwComma, KwObj(Str("W1"), Num(200))},
             MaxTextLen)
HopTexts ==
    SeqsUpTo({Prose, LBracket, RBracket, Comma,
              Obj(RawHop(Str("A"), Str("1990"), Undefined, Str("d")))}, MaxTextLen)
CityTexts ==
    SeqsUpTo({Prose, LBracket, RBracket, Comma,
              Obj(RawCity(Str("A"), Undefined, Str("c"))),
              Obj(RawCity(Undefined, Str("r"), Undefined))}, MaxTextLen)
RawHops ==
    {RawHop(c, Str("unknown"), Num(1990), Undefined) :
        c \in {Str("A"), Str(" A"), Str("a"), Str("B"), Str(" "), Undefined}}
RawHopArrays == SeqsUpTo(RawHops, MaxHops)

ParserInputs(fn) ==
    CASE fn = "tryParseEvents" -> EventTexts
      [] fn = "extractJsonArray" -> KeywordTexts
      [] fn = "takeFirstJsonArray" -> HopTexts
      [] fn = "fetchPersonLifePath" -> HopTexts
      [] fn = "parseCityList" -> CityTexts
      [] fn = "coerceLifeHops" -> RawHopArrays

ParserFns ==
    {"tryParseEvents", "extractJsonArray", "takeFirstJsonArray",
     "fetchPersonLifePath", "parseCityList", "coerceLifeHops"}

Returned(v) == [done |-> TRUE, isNull |-> FALSE, value |-> v]

CallParser(fn, result) ==
    /\ parserFn = fn
    /\ ~parserOutput.done
    /\ parserOutput' = result
    /\ UNCHANGED <<parserFn, parserInput>>

InitParser ==
    /\ parserFn \in ParserFns
    /\ parserInput \in ParserInputs(parserFn)
    /\ parserOutput = [done |-> FALSE, isNull |-> FALSE, value |-> <<>>]
    /\ InitTimelineVars /\ MapMount /\ InitDescVars /\ InitWcVars
    /\ PersonPathMount /\ DataVizMount
    /\ activeSlot = "none"
    /\ wcRef = FALSE
    /\ JumplinesMount

exceptParser == <<timelineVars, mapVars, descVars, wcVars, ppVars, dvVars,
                  activeSlot, wcRef, jlVars>>

NextParser ==
    \/ CallParser("tryParseEvents", Returned(tryParseEvents(parserInput)))
          /\ UNCHANGED exceptParser
    \/ CallParser("extractJsonArray", Returned(extractJsonArray(parserInput)))
          /\ UNCHANGED exceptParser
    \/ CallParser("takeFirstJsonArray",
                  LET r == takeFirstJsonArray(parserInput)
                  IN  [done |-> TRUE, isNull |-> r.isNull, value |-> r.arr])
          /\ UNCHANGED exceptParser
    \/ CallParser("fetchPersonLifePath", Returned(fetchPersonLifePath(parserInput)))
          /\ UNCHANGED exceptParser
    \/ CallParser("parseCityList", Returned(parseCityList(parserInput)))
          /\ UNCHANGED exceptParser
    \/ CallParser("coerceLifeHops", Returned(coerceLifeHops(parserInput)))
          /\ UNCHANGED exceptParser

SpecParser == InitParser /\ [][NextParser]_vars

\* the intro slot of PersonPath
NextPersonPath ==
    \/ \E p \in Persons : setPerson(p) /\ UNCHANGED exceptPersonPath
    \/ runSearch /\ UNCHANGED exceptPersonPath
    \/ \E k \in 1..Len(mediaReqs), o \in MediaOutcomes :
           MediaSettle(k, o) /\ UNCHANGED exceptPersonPath
    \/ \E o \in PathOutcomes : PathSettle(o) /\ UNCHANGED exceptPersonPath
    \/ \E o \in GeocodeOutcomes : GeocodeStep(o) /\ UNCHANGED exceptPersonPath
    \/ onRetryIntro /\ UNCHANGED exceptPersonPath
    \/ \E k \in 1..Len(introReqs), o \in IntroOutcomes :
          IntroSettle(k, o) /\ UNCHANGED exceptPersonPath
    \/ togglePanel /\ UNCHANGED exceptPersonPath

\* PersonPath on its own
InitPersonPath ==
    /\ PersonPathMount
    /\ InitTimelineVars /\ MapMount /\ InitDescVars /\ InitWcVars /\ DataVizMount
    /\ activeSlot = "none" /\ wcRef = FALSE /\ ParserIdle /\ JumplinesMount

SpecPersonPath == InitPersonPath /\ [][NextPersonPath]_vars

\* the insight slot of DataVizMap
NextDataViz ==
    \/ \E q \in InsightQueries : setInsightQuery(q) /\ UNCHANGED exceptDataViz
    \/ \E c \in CountryCodes : toggleCode(c) /\ UNCHANGED exceptDataViz
    \/ clearSelection /\ UNCHANGED exceptDataViz
    \/ handleInsightSubmit /\ UNCHANGED exceptDataViz
    \/ \E k \in 1..Len(insightReqs), o \in InsightOutcomes :
          InsightSettle(k, o) /\ UNCHANGED exceptDataViz
    \/ \E k \in 1..Len(boundaryReqs), o \in BoundaryOutcomes :
          BoundarySettle(k, o) /\ UNCHANGED exceptDataViz
    \/ DataVizUnmount /\ UNCHANGED exceptDataViz

\* the fetch of some boundary request settles
BoundaryProgress ==
    \E k \in 1..Len(boundaryReqs), o \in BoundaryOutcomes :
        BoundarySettle(k, o) /\ UNCHANGED exceptDataViz

\* DataVizMap on its own, with fetches that settle
InitDataViz ==
    /\ DataVizMount
    /\ InitTimelineVars /\ MapMount /\ InitDescVars /\ InitWcVars /\ PersonPathMount
    /\ activeSlot = "none" /\ wcRef = FALSE /\ ParserIdle /\ JumplinesMount

SpecDataViz == InitDataViz /\ [][NextDataViz]_vars /\ WF_vars(BoundaryProgress)

\* Jumplines on its own, mounted without origin and cityName
exceptJumplines == <<timelineVars, mapVars, descVars, wcVars, ppVars, dvVars,
                     activeSlot, wcRef, parserVars>>

NextJumplines ==
    \/ \E o \in JumpOrigins, c \in JumpCityNames :
          JumplinesEffect(o, c) /\ UNCHANGED exceptJumplines
    \/ \E k \in 1..MaxJlRuns, o \in JumpSearchOutcomes :
          JumpSearchSettle(k, o) /\ UNCHANGED exceptJumplines
    \/ \E k \in 1..MaxJlRuns, i \in 1..queueCap, o \in JumpGeocodeOutcomes :
          JumpGeocodeSettle(k, i, o) /\ UNCHANGED exceptJumplines

InitJumplines ==
    /\ JumplinesMount
    /\ InitTimelineVars /\ MapMount /\ InitDescVars /\ InitWcVars
    /\ PersonPathMount /\ DataVizMount
    /\ activeSlot = "none" /\ wcRef = FALSE /\ ParserIdle

SpecJumplines == InitJumplines /\ [][NextJumplines]_vars

\* the four slots that own an abort ref.  The components share no state, so a
\* behaviour drives one of them, the one activeSlot names.
Slots == {"description", "reverseGeocode", "intro", "insight"}

InitSlots ==
    /\ activeSlot \in Slots /\ wcRef = FALSE /\ ParserIdle /\ JumplinesMount
    /\ InitTimelineVars /\ MapMount /\ InitWcVars /\ PersonPathMount /\ DataVizMount
    /\ IF activeSlot = "description"
       THEN \E c \in DescCities : DescMount(c)
       ELSE InitDescVars

NextSlots ==
    \/ activeSlot = "description" /\ NextDesc
    \/ activeSlot = "reverseGeocode" /\ NextMap
    \/ activeSlot = "intro" /\ NextPersonPath
    \/ activeSlot = "insight" /\ NextDataViz

SpecSlots == InitSlots /\ [][NextSlots]_vars

(***************************************************************************)
(* Properties of the timeline query of ClickableMap                        *)
(***************************************************************************)
\* C1: once a newer timeline query has been issued, the Timeline holds no
\* event parsed from the response of an earlier one.
C1_NoStaleTimelineEvents ==
    tlCurrent # 0 => \A i \in 1..Len(events) : events[i].run = tlCurrent

\* C3: while the query of the most recent trigger is unresolved, ppxLoading is
\* true and ppxError is null: no older request has made a terminal transition.
C3_LoadingWhileLatestQueryPending ==
    (tlCurrent # 0 /\ tlRuns[tlCurrent].pc = "search")
        => (ppxLoading /\ ppxError = NULL)

(***************************************************************************)
(* Properties of the slots that own an abort ref                           *)
(***************************************************************************)
\* the controllers of reqs that are not aborted and whose request is unfinished
Live(reqs) == {k \in 1..Len(reqs) : reqs[k].pending /\ ~reqs[k].aborted}

\* a request was appended to reqs: the controller ref pointed at is aborted
AbortsPrevious(reqs, reqsNext, ref) ==
    (Len(reqsNext) = Len(reqs) + 1 /\ ref # 0) => reqsNext[ref].aborted

\* C4: in every state each of the four slots has at most one controller that
\* is not aborted and whose request is unfinished, and every step that issues
\* a request for a slot aborts the controller the abort ref held.
C4_OneLiveControllerPerSlot ==
    /\ [](/\ Cardinality(Live(descReqs)) <= 1
          /\ Cardinality(Live(geoReqs)) <= 1
          /\ Cardinality(Live(introReqs)) <= 1
          /\ Cardinality(Live(insightReqs)) <= 1)
    /\ [][/\ AbortsPrevious(descReqs, descReqs', descAbortRef)
          /\ AbortsPrevious(geoReqs, geoReqs', abortRef)
          /\ AbortsPrevious(introReqs, introReqs', introAbortRef)
          /\ AbortsPrevious(insightReqs, insightReqs', insightAbortRef)]_vars

\* an intro request was issued while the one before it was in flight: the
\* earlier controller is aborted, its request unfinished, and the new one live
C4_Witness ==
    \E k \in 1..Len(introReqs) :
        /\ k < introAbortRef
        /\ introReqs[k].aborted /\ introReqs[k].pending
        /\ Live(introReqs) = {introAbortRef}

(***************************************************************************)
(* Properties of the keyword fetch of Wordcloud                            *)
(***************************************************************************)
\* C5: a run of the city effect calls no setter once its cleanup has run.
C5_CleanedUpRunWritesNothing ==
    (wcWrite.run # 0 /\ wcWrite.kind = "effect") => ~wcWrite.cancelled

\* a run of the effect was cleaned up between two batches of its emission
\* loop and has ended with keywords left to emit
C5_Witness ==
    \E r \in 1..Len(wcRuns) :
        /\ wcRuns[r].kind = "effect"
        /\ wcRuns[r].cancelled
        /\ wcRuns[r].pc = "done"
        /\ wcRuns[r].i >= batch
        /\ wcRuns[r].i < Len(wcRuns[r].normalized)

\* C6: a run of onRetry calls no setter after the props it was issued for
\* have changed.
C6_SupersededRetryWritesNothing ==
    (wcWrite.run # 0 /\ wcWrite.kind = "retry") => ~wcWrite.superseded

\* C11: the keywords list has at most maxWords entries and no two of them
\* have the same word compared case-insensitively.
C11_KeywordStoreCappedAndUnique ==
    /\ Len(keywords) <= wcMaxWords
    /\ \A i, j \in 1..Len(keywords) :
          Lower(keywords[i].word) = Lower(keywords[j].word) => i = j

(***************************************************************************)
(* Properties of the parsing functions                                     *)
(***************************************************************************)
ArrayParsers ==
    {"tryParseEvents", "extractJsonArray", "takeFirstJsonArray", "parseCityList"}

\* t is the text of a JSON array: brackets around objects separated by commas
ArrayText(t) ==
    /\ Len(t) >= 2
    /\ t[1].t = "[" /\ t[Len(t)].t = "]"
    /\ Len(t) = 2 \/ Len(t) % 2 = 1
    /\ \A i \in 2..(Len(t) - 1) : t[i].t = (IF i % 2 = 0 THEN "obj" ELSE ",")

\* the elements of the array with the text t
Elements(t) == [i \in 1..((Len(t) - 1) \div 2) |-> t[2 * i].v]

\* where the text holds a JSON array
EmbeddedArrays(text) ==
    {ab \in (1..Len(text)) \X (1..Len(text)) :
        ab[1] < ab[2] /\ ArrayText(SubSeq(text, ab[1], ab[2]))}

\* the one array the text holds
TheArray(text) ==
    LET ab == CHOOSE x \in EmbeddedArrays(text) : TRUE
    IN  Elements(SubSeq(text, ab[1], ab[2]))

\* C12: from a text that holds one JSON array between two stretches of
\* prose, each array parser obtains the elements of that array.
C12_EmbeddedArrayExtracted ==
    (parserOutput.done /\ parserFn \in ArrayParsers
        /\ Cardinality(EmbeddedArrays(parserInput)) = 1)
    => LET expected == TheArray(parserInput)
       IN  CASE parserFn = "tryParseEvents" -> parserOutput.value = coerce(expected)
             [] parserFn = "parseCityList" ->
                    parserOutput.value = CoerceCities(expected)
             [] OTHER -> ~parserOutput.isNull /\ parserOutput.value = expected

\* C13: from a text that holds no JSON array each array parser returns the
\* empty result, null for takeFirstJsonArray, and it returns for every text.
C13_NoJsonGivesEmpty ==
    (parserOutput.done /\ parserFn \in ArrayParsers
        /\ EmbeddedArrays(parserInput) = {})
    => /\ parserOutput.value = <<>>
       /\ parserOutput.isNull = (parserFn = "takeFirstJsonArray")

\* a text with an opening bracket in front of a closing one and no array in
\* it was given to takeFirstJsonArray, which returned null
C13_Witness ==
    /\ parserFn = "takeFirstJsonArray"
    /\ parserOutput.done /\ parserOutput.isNull
    /\ EmbeddedArrays(parserInput) = {}
    /\ \E i, j \in 1..Len(parserInput) :
          i < j /\ parserInput[i].t = "[" /\ parserInput[j].t = "]"

\* C14: what the caller receives for a text without an array differs from
\* what it receives for the text of the empty array.
C14_EmptyArrayDistinctFromFailure ==
    (parserOutput.done /\ EmbeddedArrays(parserInput) = {})
    => CASE parserFn = "tryParseEvents" ->
                parserOutput.value # tryParseEvents(<<LBracket, RBracket>>)
         [] parserFn = "fetchPersonLifePath" ->
                parserOutput.value # fetchPersonLifePath(<<LBracket, RBracket>>)
         [] OTHER -> TRUE

\* the raw element o has a city: a string that is not empty once trimmed
HasCity(o) == o.city.type = "string" /\ Trim(o.city.s) # ""

\* the key of a raw element with a city
CityKey(o) == Lower(Trim(o.city.s))

\* the indices of the raw array that coerceLifeHops is to keep: the elements
\* with a city whose key differs from that of the element with a city before
Survivors(rawArr) ==
    LET withCity == {i \in 1..Len(rawArr) : HasCity(rawArr[i])}
    IN  {i \in withCity :
            \A j \in withCity :
                (j < i /\ \A k \in withCity : ~(j < k /\ k < i))
                    => CityKey(rawArr[j]) # CityKey(rawArr[i])}

\* C15: coerceLifeHops returns the elements with a city, in input order,
\* without those whose key repeats that of the element before, so that no two
\* adjacent hops have the same city.
C15_ConsecutiveDuplicatesCollapsed ==
    (parserOutput.done /\ parserFn = "coerceLifeHops")
    => LET out == parserOutput.value
           S == Survivors(parserInput)
       IN  /\ Len(out) = Cardinality(S)
           /\ \A i \in S :
                 out[Cardinality({j \in S : j <= i})].city = Trim(parserInput[i].city.s)
           /\ \A n \in 1..(Len(out) - 1) :
                 Lower(Trim(out[n].city)) # Lower(Trim(out[n + 1].city))

\* the keys a, a, b, a were given and the cities A, B, A returned
C15_Witness ==
    /\ parserFn = "coerceLifeHops" /\ parserOutput.done
    /\ Len(parserInput) = 4
    /\ \A i \in 1..4 : HasCity(parserInput[i])
    /\ [i \in 1..4 |-> CityKey(parserInput[i])] = <<"a", "a", "b", "a">>
    /\ Len(parserOutput.value) = 3
    /\ [n \in 1..3 |-> Lower(parserOutput.value[n].city)] = <<"a", "b", "a">>

\* the array tryParseEvents parses: the whole text, or the text from the
\* first opening bracket to the last closing one
ParsedArray(text) ==
    LET opening == {i \in 1..Len(text) : text[i].t = "["}
        closing == {i \in 1..Len(text) : text[i].t = "]"}
        a == CHOOSE i \in opening : \A j \in opening : i <= j
        b == CHOOSE i \in closing : \A j \in closing : j <= i
    IN  IF opening # {} /\ closing # {} /\ a < b /\ ArrayText(SubSeq(text, a, b))
        THEN [parsed |-> TRUE, arr |-> Elements(SubSeq(text, a, b))]
        ELSE [parsed |-> FALSE, arr |-> <<>>]

\* C16: tryParseEvents returns one event for each element of the parsed
\* array, in order, each field that is missing or of another type replaced by
\* its default.
C16_MalformedRecordsGetDefaults ==
    (parserOutput.done /\ parserFn = "tryParseEvents"
        /\ ParsedArray(parserInput).parsed)
    => LET arr == ParsedArray(parserInput).arr
           out == parserOutput.value
           Field(f, default) == IF f.type = "string" THEN f.s ELSE default
       IN  /\ Len(out) = Len(arr)
           /\ \A i \in 1..Len(arr) :
                 /\ out[i].id = Field(arr[i].id, ToString(i))
                 /\ out[i].date =
                        IF arr[i].date.type = "string" /\ ValidDate(arr[i].date.s)
                        THEN ToISOString(arr[i].date.s)
                        ELSE "1900-01-01T00:00:00.000Z"
                 /\ out[i].title = Field(arr[i].title, "Untitled")
                 /\ out[i].description = Field(arr[i].description, "")
                 /\ out[i].icon = Field(arr[i].icon, "calendar")
                 /\ out[i].color = Field(arr[i].color, "#3498db")

\* an array of two elements was parsed whose second has an id that is no
\* string and no title: its event has the id "2" and the title 'Untitled'
C16_Witness ==
    /\ parserFn = "tryParseEvents" /\ parserOutput.done
    /\ ParsedArray(parserInput).parsed
    /\ Len(parserOutput.value) = 2
    /\ ParsedArray(parserInput).arr[2].id.type = "number"
    /\ parserOutput.value[2].id = "2"
    /\ parserOutput.value[2].title = "Untitled"

\* C29: when no two elements of the parsed array have the same string id,
\* the events tryParseEvents returns have pairwise distinct ids.
C29_DefaultIdsDistinct ==
    (/\ parserOutput.done /\ parserFn = "tryParseEvents"
     /\ ParsedArray(parserInput).parsed
     /\ LET arr == ParsedArray(parserInput).arr
        IN  \A i, j \in 1..Len(arr) :
               (arr[i].id.type = "string" /\ arr[j].id.type = "string"
                    /\ arr[i].id.s = arr[j].id.s) => i = j)
    => \A i, j \in 1..Len(parserOutput.value) :
          parserOutput.value[i].id = parserOutput.value[j].id => i = j

\* C30: in a run of the Jumplines effect that is not aborted, the queue holds
\* the first min(n, 10) of the n listed cities, geocodeCity is never called
\* twice for a queue position and has been called once for every position
\* when the workers have ended, at most four calls are awaited at a time, and
\* setJumps(out) is called at most once.
C30_WorkerPoolGeocodesEachOnce ==
    \A k \in 1..Len(jlRuns) :
        LET run == jlRuns[k]
            n == Len(run.list)
        IN  (~run.aborted /\ run.pc \in {"pool", "done"} /\ n > 0) =>
               /\ Len(run.queue) = (IF n < queueCap THEN n ELSE queueCap)
               /\ \A i \in 1..Len(run.queue) :
                     /\ run.requested[i] <= 1
                     /\ run.pc = "done" => run.requested[i] = 1
               /\ Cardinality(run.inFlight) <= concurrency
               /\ run.setCalls <= 1

(***************************************************************************)
(* Properties of the timeline query, in terms of the text it resolves with *)
(***************************************************************************)
\* C17: when the one query issued has ended and its text held an array of
\* well-formed event objects, the Timeline holds one record for each element
\* of the array, with the id, the date and the title the JSON gives.
C17_StoreHoldsJsonValues ==
    (/\ Len(tlRuns) = 1 /\ tlRuns[1].pc = "done"
     /\ TimelineMounted
     /\ ParsedArray(tlRuns[1].text).parsed
     /\ \A o \in Range(ParsedArray(tlRuns[1].text).arr) :
           o.id.type = "string" /\ o.date.type = "string" /\ o.title.type = "string")
    => LET arr == ParsedArray(tlRuns[1].text).arr
       IN  /\ Len(events) = Len(arr)
           /\ \A i \in 1..Len(arr) :
                 \E n \in 1..Len(events) :
                     /\ events[n].id = arr[i].id.s
                     /\ events[n].date = arr[i].date.s
                     /\ events[n].title = arr[i].title.s

\* C18: a step in which a query resolves with a text (kept by the run) that
\* no event is parsed from leaves the Timeline empty, ppxLoading false and ppxError the
\* message 'No events parsed from model response'.
C18_ZeroEventsGivesEmpty ==
    [][(\E r \in 1..Len(tlRuns) :
            /\ tlRuns[r].pc = "search" /\ tlRuns'[r].pc = "done"
            /\ tlRuns'[r].text # <<>>)
       => (/\ events' = <<>>
           /\ ~ppxLoading'
           /\ ppxError' = "No events parsed from model response")]_vars

(***************************************************************************)
(* Properties of the life path of PersonPath                               *)
(***************************************************************************)
\* C19: while the life path query of a new search is unanswered, hops holds
\* no record of the search before.
C19_LoadingClearsStore ==
    pathRun.pc = "fetch" => hops = <<>>

\* C20: when runSearch has finished with error set, hops is empty.
C20_ErrorLeavesStoreEmpty ==
    (pathRun.pc = "idle" /\ ppError # NULL) => hops = <<>>

\* C28: the timeline effect has issued at most one query per map click.
C28_OneQueryPerSelection ==
    Len(tlRuns) <= Len(geoReqs)

\* the index of the first element of parsed with the given id
FirstIndex(parsed, id) ==
    CHOOSE i \in 1..Len(parsed) :
        parsed[i].id = id /\ \A j \in 1..(i - 1) : parsed[j].id # id

\* the Timeline holds exactly the events parsed by run r: one record per id,
\* the first of that id, in date order
HoldsParsed(r) ==
    LET parsed == tlRuns[r].parsed
    IN  /\ Ids(events) = {parsed[i].id : i \in 1..Len(parsed)}
        /\ \A i, j \in 1..Len(events) : events[i].id = events[j].id => i = j
        /\ \A i, j \in 1..Len(events) :
              i < j => GetTime(events[i].date) <= GetTime(events[j].date)
        /\ \A i \in 1..Len(events) :
              events[i] = [parsed[FirstIndex(parsed, events[i].id)] EXCEPT !.run = r]

C26_EventsSurviveHiding ==
    [][(showTimeline' # showTimeline \/ activeView' # activeView)
          => events' = events]_vars

(***************************************************************************)
(* Properties of failures and aborts                                       *)
(***************************************************************************)
\* request k of reqs settles in this step, its controller being aborted
SettlesAborted(reqs, reqsNext, k) ==
    reqs[k].pending /\ reqs[k].aborted /\ ~reqsNext[k].pending

\* C21: a request that settles when its controller is aborted leaves the
\* error of its feature as it was (descError, personIntroError, mediaError,
\* insightError), and reverseGeocode logs nothing for it.
C21_AbortNeverShownAsError ==
    [][/\ \A k \in 1..Len(descReqs) :
            SettlesAborted(descReqs, descReqs', k) => descError' = descError
       /\ \A k \in 1..Len(introReqs) :
            SettlesAborted(introReqs, introReqs', k)
                => personIntroError' = personIntroError
       /\ \A k \in 1..Len(mediaReqs) :
            SettlesAborted(mediaReqs, mediaReqs', k) => mediaError' = mediaError
       /\ \A k \in 1..Len(insightReqs) :
            SettlesAborted(insightReqs, insightReqs', k)
                => insightError' = insightError
       /\ \A k \in 1..Len(geoReqs) :
            SettlesAborted(geoReqs, geoReqs', k) => ~geoReqs'[k].logged]_vars

\* a portrait request has settled after its abort while the panel shows the
\* error of a later request
C21_Witness ==
    \E k \in 1..Len(mediaReqs) : mediaReqs[k].discarded /\ mediaError # NULL

\* C22: when reverseGeocode fails for another reason than an abort, the map
\* shows an error string.
C22_FailureEndsAsErrorString ==
    [][\A k \in 1..Len(geoReqs) :
          (geoReqs[k].pending /\ geoReqs'[k].logged) => ppxError' # NULL]_vars

\* C23: once Desc has unmounted, every description request still in flight
\* has an aborted controller.
C23_DeactivationAbortsInFlight ==
    ~descMounted => \A k \in 1..Len(descReqs) :
                       descReqs[k].pending => descReqs[k].aborted

\* C25: once the boundary fetch of a selected code has settled, the code
\* leaves loadingMap (as long as DataVizMap stays mounted).
C25_LoadingClearedAfterFetch ==
    \A code \in CountryCodes :
        (/\ dvMounted /\ code \in selectedCodes
         /\ \E k \in 1..Len(boundaryReqs) :
               boundaryReqs[k].code = code /\ ~boundaryReqs[k].pending
         /\ \A k \in 1..Len(boundaryReqs) :
               boundaryReqs[k].code = code => ~boundaryReqs[k].pending)
        ~> (code \notin loadingMap \/ ~dvMounted)

\* C27: while the panel is shown for a searched person, a portrait request
\* for that person is in flight or has completed without being aborted.
C27_SearchLeavesMediaRequest ==
    (showPanel /\ activePerson # NULL)
        => \E k \in 1..Len(mediaReqs) :
              mediaReqs[k].person = activePerson /\ ~mediaReqs[k].aborted

(***************************************************************************)
(* Properties of the description slot                                      *)
(***************************************************************************)
\* C2: a description request whose controller has been aborted never reaches
\* a setter of descText, descError or descLoading: every request that applied
\* its outcome was not aborted at that point and was the request issued last.
C2_AbortedDescriptionNeverApplied ==
    descApplied.req # 0 => (~descApplied.aborted /\ descApplied.latest)

\* the response of an aborted request arrived and was discarded, and the
\* request issued after it was applied
C2_Witness ==
    /\ descApplied.req # 0
    /\ \E k \in 1..Len(descReqs) :
          /\ descReqs[k].aborted
          /\ descReqs[k].discarded
          /\ k < descApplied.req

\* C7: whenever a request of an orchestrator is cancelled, its HTTP call has
\* been given the cancellation signal of the slot.
C7_CancelReachesHttpCall ==
    \A k \in 1..Len(descReqs) :
        (descReqs[k].aborted /\ descReqs[k].pending) => descReqs[k].signal

(***************************************************************************)
(* Properties of the Timeline store                                        *)
(***************************************************************************)
Count(s, id) == Cardinality({i \in 1..Len(s) : s[i].id = id})

UniqueIds(s) == \A i, j \in 1..Len(s) : s[i].id = s[j].id => i = j

\* no two events of s are out of chronological order
IsSortedByDate(s) ==
    \A i, j \in 1..Len(s) :
        (i < j /\ ValidDate(s[i].date) /\ ValidDate(s[j].date))
            => GetTime(s[i].date) <= GetTime(s[j].date)

\* C8: addEvent with an id that is present leaves the list unchanged, and
\* addEvent with an absent id leaves exactly one record of that id.
C8_AddEventInsertIfAbsent ==
    [][lastCall'.op = "addEvent" =>
          IF lastCall'.dup THEN events' = events
          ELSE Count(events', lastCall'.event.id) = 1]_vars

\* addEvent was called with a record whose id the list holds in another record
C8_Witness ==
    /\ lastCall.op = "addEvent"
    /\ lastCall.dup
    /\ lastCall.event \notin Range(events)
    /\ Count(events, lastCall.event.id) = 1

\* C9: after an addEvent that inserted, and after clearEvents, the list is
\* sorted ascending by date.
C9_SortedAfterCalls ==
    (lastCall.op = "clearEvents" \/ (lastCall.op = "addEvent" /\ ~lastCall.dup))
        => IsSortedByDate(events)

\* C10: no two events of the list share an id and the list is in date order.
C10_UniqueIdsAndDateOrder ==
    UniqueIds(events) /\ IsSortedByDate(events)

====
